---------------------------- MODULE Spec2Model ----------------------------
(***************************************************************************)
(* A model of the school-management web application: the Flask route       *)
(* handlers of src/app.py over the DatabaseService of src/database.py.     *)
(*                                                                         *)
(* The backend tables are sequences of rows in insertion order (a table    *)
(* can hold two rows with equal key columns: the application declares no   *)
(* uniqueness).  A request handler runs as one action; the DatabaseService *)
(* methods are operators from a table value to the new table value and the *)
(* method's return value.  A Python value that may be None is a set with   *)
(* at most one element ({} is None).  Strings that the code inspects       *)
(* (password hashes, numbers typed in a form) are sequences of characters. *)
(***************************************************************************)
EXTENDS Integers, Sequences, FiniteSets, TLC

VARIABLES
    session,        \* the Flask session: username and role, or absent
    users,          \* table users
    students,       \* table students
    teachers,       \* table teachers
    marks,          \* table marks
    grades,         \* table grades
    attendance,     \* table attendance
    nextStudentId,  \* the serial of students.id
    nextTeacherId,  \* the serial of teachers.id
    now,            \* the system clock (datetime.now(), date.today())
    req,            \* the last request (or DatabaseService call) and its input
    resp,           \* the response to it
    issued,         \* the backend write calls the last request issued
    ret,            \* the return value of the last direct DatabaseService call
    procs,          \* the position of each overlapping mark_attendance call
    writes          \* how many requests have changed a table so far

vars == <<session, users, students, teachers, marks, grades, attendance,
          nextStudentId, nextTeacherId, now, req, resp, issued, ret, procs,
          writes>>

tables == <<users, students, teachers, marks, grades, attendance,
            nextStudentId, nextTeacherId>>

-----------------------------------------------------------------------------
(* Bounds of the model *)

MaxStudentId == 2   \* students.id serial stops here
MaxTeacherId == 2   \* teachers.id serial stops here
MaxNow == 1         \* the clock stops here
MaxWrites == 1      \* the application's runs change the tables this many times
MaxUsers == 2       \* create_user is not called beyond this many users
MaxAttendance == 2  \* direct mark_attendance calls stop at this many rows
MarkMargin == 2     \* marks typed in a form range this far below 0 and above 100
MaxDays == 24       \* a student has up to this many attendance records

-----------------------------------------------------------------------------
(* Strings *)

NoVal == "<absent>"   \* a key that a dict (the session, a form) does not hold

StartsWith(s, p) ==
    /\ Len(s) >= Len(p)
    /\ SubSeq(s, 1, Len(p)) = p

DigitChars == <<"0", "1", "2", "3", "4", "5", "6", "7", "8", "9">>

IsDigit(c) == \E i \in 1..10 : DigitChars[i] = c

DigitVal(c) == (CHOOSE i \in 1..10 : DigitChars[i] = c) - 1

RECURSIVE DigitsVal(_)
DigitsVal(s) ==
    IF s = <<>> THEN 0
    ELSE 10 * DigitsVal(SubSeq(s, 1, Len(s) - 1)) + DigitVal(s[Len(s)])

AllDigits(s) == s # <<>> /\ \A i \in 1..Len(s) : IsDigit(s[i])

\* int(text): the set holding the number, or {} when int raises ValueError
ParseInt(s) ==
    IF s # <<>> /\ s[1] = "-" /\ AllDigits(Tail(s)) THEN {0 - DigitsVal(Tail(s))}
    ELSE IF s # <<>> /\ s[1] = "+" /\ AllDigits(Tail(s)) THEN {DigitsVal(Tail(s))}
    ELSE IF AllDigits(s) THEN {DigitsVal(s)}
    ELSE {}

\* the decimal text of a number, as a browser's number field submits it
RECURSIVE NatStr(_)
NatStr(n) ==
    IF n < 10 THEN <<DigitChars[n + 1]>>
    ELSE NatStr(n \div 10) \o <<DigitChars[(n % 10) + 1]>>

IntStr(n) == IF n < 0 THEN <<"-">> \o NatStr(0 - n) ELSE NatStr(n)

-----------------------------------------------------------------------------
(* Password hashes *)

BcryptPrefix == <<"$", "2", "b", "$">>
WerkzeugPrefix == <<"s", "c", "r", "y", "p", "t", ":">>

RECURSIVE Reverse(_)
Reverse(s) == IF s = <<>> THEN <<>> ELSE Reverse(Tail(s)) \o <<Head(s)>>

\* the digest part of a hash: one-way in the library, here any injective
\* function that is not the identity
Digest(pw) == Reverse(pw)

BcryptHash(pw) == BcryptPrefix \o Digest(pw)

\* werkzeug.security.generate_password_hash
GeneratePasswordHash(pw) == WerkzeugPrefix \o Digest(pw)

\* bcrypt.checkpw
BcryptCheckpw(pw, hash) == hash = BcryptHash(pw)

Passwords == {<<"p", "w", "1">>, <<"p", "w", "2">>}
GoodPw == <<"p", "w", "1">>

Roles == {"principal", "teacher", "student"}

-----------------------------------------------------------------------------
(* Values of the model *)

None == {}                       \* Python's None, as the empty option
Some(x) == {x}
TheOne(o) == CHOOSE x \in o : TRUE

First(rows) == IF rows = <<>> THEN None ELSE Some(rows[1])   \* data[0] if data else None

Range(s) == {s[i] : i \in 1..Len(s)}

Usernames == {"principal1", "teacher1", "teacher2", "student1", "guest1",
              "nobody"}
UrlClasses == {"10", "11"}
Sections == {"A", "B"}

\* the forms a browser posts to add_student and edit_student, and to
\* add_teacher and edit_teacher
StudentForms ==
    {[name |-> "Bob", age |-> a, class |-> "10", section |-> "B"] :
        a \in {<<"1", "3">>, <<"x">>}}
TeacherForms == {[name |-> "Ann", subject |-> "sci"]}

\* an image posted by the browser: its length and its content
NoBlob == [len |-> 0, body |-> "None"]
Img(n, b) == [len |-> n, body |-> b]
MinFaceLen == 100

\* datetime.now().isoformat() and date.today().isoformat()
Timestamp(t) == t
Today(t) == (t + 1) \div 2

\* the sets of backend calls that raise during one request: none, any single
\* one, or all of them (the backend is unreachable)
FailSets(calls) == {{}} \cup {{c} : c \in calls} \cup {calls}

-----------------------------------------------------------------------------
(* DatabaseService: users *)

\* create_user
CreateUser(tbl, username, password, role, student_id, fails) ==
    LET user_data == [username |-> username,
                      password_hash |-> GeneratePasswordHash(password),
                      role |-> role,
                      student_id |-> student_id]
    IN  IF "users.insert" \in fails
        THEN [tbl |-> tbl, ret |-> None]
        ELSE [tbl |-> Append(tbl, user_data), ret |-> Some(user_data)]

\* get_user
GetUser(tbl, username, fails) ==
    IF "users.select" \in fails THEN None
    ELSE First(SelectSeq(tbl, LAMBDA u : u.username = username))

\* check_password_hash is not a name of database.py (only generate_password_hash
\* is imported): evaluating it raises NameError
CheckPasswordHashBound == FALSE

\* verify_user: the user, None, or the exception that leaves the method
VerifyUser(tbl, username, password, fails) ==
    LET user == GetUser(tbl, username, fails)
    IN  IF user # None /\ StartsWith(TheOne(user).password_hash, BcryptPrefix)
        THEN IF BcryptCheckpw(password, TheOne(user).password_hash)
             THEN [raised |-> "", value |-> user]
             ELSE [raised |-> "", value |-> None]
        ELSE IF user # None
        THEN IF ~CheckPasswordHashBound
             THEN [raised |-> "NameError", value |-> None]
             ELSE IF TheOne(user).password_hash = GeneratePasswordHash(password)
             THEN [raised |-> "", value |-> user]
             ELSE [raised |-> "", value |-> None]
        ELSE [raised |-> "", value |-> None]

InitUsers ==
    << [username |-> "principal1", password_hash |-> BcryptHash(GoodPw),
        role |-> "principal", student_id |-> 0],
       [username |-> "teacher1", password_hash |-> GeneratePasswordHash(GoodPw),
        role |-> "teacher", student_id |-> 0],
       [username |-> "teacher2", password_hash |-> BcryptHash(GoodPw),
        role |-> "teacher", student_id |-> 0],
       [username |-> "student1", password_hash |-> BcryptHash(GoodPw),
        role |-> "student", student_id |-> 1],
       [username |-> "guest1", password_hash |-> BcryptHash(GoodPw),
        role |-> "guest", student_id |-> 0] >>

-----------------------------------------------------------------------------
(* DatabaseService: students and teachers *)

\* create_student
CreateStudent(tbl, id, name, age, class_name, section, face_data, fails) ==
    LET student_data == [id |-> id, name |-> name, age |-> age,
                         class |-> class_name, section |-> section,
                         class_name |-> NoVal, face_data |-> face_data]
    IN  IF "students.insert" \in fails
        THEN [tbl |-> tbl, ret |-> None]
        ELSE [tbl |-> Append(tbl, student_data), ret |-> Some(student_data)]

\* GetStudent without the filter on id: the first row of the table
GetStudentUnfiltered(tbl, student_id, fails) ==
    IF "students.select" \in fails THEN None ELSE First(tbl)

\* get_student
GetStudent(tbl, student_id, fails) ==
    IF "students.select" \in fails THEN None
    ELSE First(SelectSeq(tbl, LAMBDA s : s.id = student_id))

\* .order('name'): a stable sort of the rows by their name column
NameRank(n) == IF n = "Ann" THEN 1 ELSE 2

RECURSIVE SortByName(_)
SortByName(tbl) ==
    IF tbl = <<>> THEN <<>>
    ELSE LET least == CHOOSE i \in 1..Len(tbl) :
                          \A j \in 1..Len(tbl) :
                              \/ NameRank(tbl[i].name) < NameRank(tbl[j].name)
                              \/ NameRank(tbl[i].name) = NameRank(tbl[j].name) /\ i <= j
             rest == [k \in 1..(Len(tbl) - 1) |->
                          IF k < least THEN tbl[k] ELSE tbl[k + 1]]
         IN  <<tbl[least]>> \o SortByName(rest)

\* get_all_students
GetAllStudents(tbl, fails) ==
    IF "students.select" \in fails THEN <<>> ELSE SortByName(tbl)

\* a backend update: the rows the filter matches (their indices) take the
\* given columns
UpdateRows(tbl, matched, kwargs) ==
    [i \in 1..Len(tbl) |->
        IF i \in matched
        THEN [k \in DOMAIN tbl[i] |->
                 IF k \in DOMAIN kwargs THEN kwargs[k] ELSE tbl[i][k]]
        ELSE tbl[i]]

\* update_student
UpdateStudent(tbl, student_id, kwargs, fails) ==
    LET new == UpdateRows(tbl, {i \in 1..Len(tbl) : tbl[i].id = student_id}, kwargs)
    IN  IF "students.update" \in fails
        THEN [tbl |-> tbl, ret |-> None]
        ELSE [tbl |-> new,
              ret |-> First(SelectSeq(new, LAMBDA s : s.id = student_id))]

\* DeleteStudent with an except branch that returns True
DeleteStudentReportsSuccess(tbl, student_id, fails) ==
    IF "students.delete" \in fails
    THEN [tbl |-> tbl, ret |-> TRUE]
    ELSE [tbl |-> SelectSeq(tbl, LAMBDA s : s.id # student_id), ret |-> TRUE]

\* DeleteStudent without the filter on id: every row is deleted
DeleteStudentUnfiltered(tbl, student_id, fails) ==
    IF "students.delete" \in fails
    THEN [tbl |-> tbl, ret |-> FALSE]
    ELSE [tbl |-> <<>>, ret |-> TRUE]

\* DeleteStudent that returns whether a row was deleted
DeleteStudentReportsRows(tbl, student_id, fails) ==
    IF "students.delete" \in fails
    THEN [tbl |-> tbl, ret |-> FALSE]
    ELSE [tbl |-> SelectSeq(tbl, LAMBDA s : s.id # student_id),
          ret |-> \E i \in 1..Len(tbl) : tbl[i].id = student_id]

\* delete_student
DeleteStudent(tbl, student_id, fails) ==
    IF "students.delete" \in fails
    THEN [tbl |-> tbl, ret |-> FALSE]
    ELSE [tbl |-> SelectSeq(tbl, LAMBDA s : s.id # student_id), ret |-> TRUE]

\* delete_student_face
DeleteStudentFace(tbl, student_id, fails) ==
    UpdateStudent(tbl, student_id, [face_data |-> NoBlob], fails)

\* create_teacher
CreateTeacher(tbl, id, name, subject, fails) ==
    LET teacher_data == [id |-> id, name |-> name, subject |-> subject]
    IN  IF "teachers.insert" \in fails
        THEN [tbl |-> tbl, ret |-> None]
        ELSE [tbl |-> Append(tbl, teacher_data), ret |-> Some(teacher_data)]

\* get_teacher
GetTeacher(tbl, teacher_id, fails) ==
    IF "teachers.select" \in fails THEN None
    ELSE First(SelectSeq(tbl, LAMBDA x : x.id = teacher_id))

\* get_all_teachers
GetAllTeachers(tbl, fails) ==
    IF "teachers.select" \in fails THEN <<>> ELSE SortByName(tbl)

\* update_teacher
UpdateTeacher(tbl, teacher_id, kwargs, fails) ==
    LET new == UpdateRows(tbl, {i \in 1..Len(tbl) : tbl[i].id = teacher_id}, kwargs)
    IN  IF "teachers.update" \in fails
        THEN [tbl |-> tbl, ret |-> None]
        ELSE [tbl |-> new,
              ret |-> First(SelectSeq(new, LAMBDA x : x.id = teacher_id))]

\* delete_teacher
DeleteTeacher(tbl, teacher_id, fails) ==
    IF "teachers.delete" \in fails
    THEN [tbl |-> tbl, ret |-> FALSE]
    ELSE [tbl |-> SelectSeq(tbl, LAMBDA x : x.id # teacher_id), ret |-> TRUE]

-----------------------------------------------------------------------------
(* DatabaseService: marks and grades *)

\* GradeOf with the first comparison strict
GradeOfStrict(mark) ==
    IF mark > 90 THEN "A"
    ELSE IF mark >= 80 THEN "B"
    ELSE IF mark >= 70 THEN "C"
    ELSE IF mark >= 60 THEN "D"
    ELSE IF mark >= 40 THEN "E"
    ELSE "F"

\* the threshold chain of enter_marks
GradeOf(mark) ==
    IF mark >= 90 THEN "A"
    ELSE IF mark >= 80 THEN "B"
    ELSE IF mark >= 70 THEN "C"
    ELSE IF mark >= 60 THEN "D"
    ELSE IF mark >= 40 THEN "E"
    ELSE "F"

\* d[key] = value on a dict kept as the sequence of its items in insertion order
DictSet(d, key, value) ==
    IF \E i \in 1..Len(d) : d[i].key = key
    THEN [i \in 1..Len(d) |-> IF d[i].key = key THEN [key |-> key, value |-> value]
                                                 ELSE d[i]]
    ELSE Append(d, [key |-> key, value |-> value])


\* MarksDeleted without the filter on student_id: every row is deleted
MarksDeletedUnfiltered(tbl, student_id) == <<>>

\* save_marks, line 178: the table once the student's rows are deleted
MarksDeleted(tbl, student_id) ==
    SelectSeq(tbl, LAMBDA r : r.student_id # student_id)

\* save_marks, lines 181-188: one record per item of the dict
MarksRecords(student_id, marks_data) ==
    [i \in 1..Len(marks_data) |->
        [student_id |-> student_id,
         subject |-> marks_data[i].key,
         mark |-> marks_data[i].value]]

\* SaveMarks as a transaction: a failed insert leaves the table as it was
SaveMarksRestores(tbl, student_id, marks_data, fails) ==
    IF fails \cap {"marks.delete", "marks.insert"} # {}
    THEN [tbl |-> tbl, ret |-> <<>>]
    ELSE [tbl |-> MarksDeleted(tbl, student_id)
                      \o MarksRecords(student_id, marks_data),
          ret |-> MarksRecords(student_id, marks_data)]

\* save_marks: delete the student's rows, then insert one row per item
SaveMarks(tbl, student_id, marks_data, fails) ==
    LET deleted == MarksDeleted(tbl, student_id)
        marks_records == MarksRecords(student_id, marks_data)
    IN  IF "marks.delete" \in fails THEN [tbl |-> tbl, ret |-> <<>>]
        ELSE IF marks_records = <<>> THEN [tbl |-> deleted, ret |-> <<>>]
        ELSE IF "marks.insert" \in fails THEN [tbl |-> deleted, ret |-> <<>>]
        ELSE [tbl |-> deleted \o marks_records, ret |-> marks_records]

\* SaveGrades without the delete: the new rows are added to the old ones
SaveGradesKeepsOld(tbl, student_id, grades_data, fails) ==
    LET grades_records == [i \in 1..Len(grades_data) |->
                              [student_id |-> student_id,
                               subject |-> grades_data[i].key,
                               grade |-> grades_data[i].value]]
    IN  IF fails \cap {"grades.delete", "grades.insert"} # {}
        THEN [tbl |-> tbl, ret |-> <<>>]
        ELSE [tbl |-> tbl \o grades_records, ret |-> grades_records]

\* save_grades: delete the student's rows, then insert one row per item
SaveGrades(tbl, student_id, grades_data, fails) ==
    LET deleted == SelectSeq(tbl, LAMBDA r : r.student_id # student_id)
        grades_records == [i \in 1..Len(grades_data) |->
                              [student_id |-> student_id,
                               subject |-> grades_data[i].key,
                               grade |-> grades_data[i].value]]
    IN  IF "grades.delete" \in fails THEN [tbl |-> tbl, ret |-> <<>>]
        ELSE IF grades_records = <<>> THEN [tbl |-> deleted, ret |-> <<>>]
        ELSE IF "grades.insert" \in fails THEN [tbl |-> deleted, ret |-> <<>>]
        ELSE [tbl |-> deleted \o grades_records, ret |-> grades_records]

-----------------------------------------------------------------------------
(* DatabaseService: attendance *)

AttendanceMatch(r, student_id, date_str) ==
    r.student_id = student_id /\ r.date = date_str

\* mark_attendance, line 251: the existence check
AttendanceExisting(tbl, student_id, date_str) ==
    SelectSeq(tbl, LAMBDA r : AttendanceMatch(r, student_id, date_str))

\* AttendanceWrite without the update branch: every call inserts
AttendanceWriteAlwaysInserts(tbl, existing, student_id, date_str, face_data, t, fails) ==
    LET attendance_data == [student_id |-> student_id,
                            date |-> date_str,
                            face_data |-> face_data,
                            created_at |-> Timestamp(t),
                            updated_at |-> Timestamp(t)]
    IN  IF "attendance.insert" \in fails
        THEN [tbl |-> tbl, ret |-> None]
        ELSE [tbl |-> Append(tbl, attendance_data), ret |-> Some(attendance_data)]

\* AttendanceWrite with an update that also writes created_at
AttendanceWriteResetsCreated(tbl, existing, student_id, date_str, face_data, t, fails) ==
    LET new == UpdateRows(tbl,
                   {i \in 1..Len(tbl) : AttendanceMatch(tbl[i], student_id, date_str)},
                   [face_data |-> face_data, created_at |-> Timestamp(t),
                    updated_at |-> Timestamp(t)])
    IN  IF existing = <<>>
        THEN AttendanceWriteAlwaysInserts(tbl, existing, student_id, date_str,
                                          face_data, t, fails)
        ELSE IF "attendance.update" \in fails
        THEN [tbl |-> tbl, ret |-> None]
        ELSE [tbl |-> new,
              ret |-> First(SelectSeq(new,
                          LAMBDA r : AttendanceMatch(r, student_id, date_str)))]

\* mark_attendance, lines 253-270: the update or the insert that follows the check
AttendanceWrite(tbl, existing, student_id, date_str, face_data, t, fails) ==
    IF existing # <<>>
    THEN LET new == UpdateRows(tbl,
                        {i \in 1..Len(tbl) :
                            AttendanceMatch(tbl[i], student_id, date_str)},
                        [face_data |-> face_data, updated_at |-> Timestamp(t)])
         IN  IF "attendance.update" \in fails
             THEN [tbl |-> tbl, ret |-> None]
             ELSE [tbl |-> new,
                   ret |-> First(AttendanceExisting(new, student_id, date_str))]
    ELSE LET attendance_data == [student_id |-> student_id,
                                 date |-> date_str,
                                 face_data |-> face_data,
                                 created_at |-> Timestamp(t),
                                 updated_at |-> Timestamp(t)]
         IN  IF "attendance.insert" \in fails
             THEN [tbl |-> tbl, ret |-> None]
             ELSE [tbl |-> Append(tbl, attendance_data),
                   ret |-> Some(attendance_data)]

\* mark_attendance, run without interruption
MarkAttendanceDb(tbl, student_id, date_str, face_data, t, fails) ==
    IF "attendance.select" \in fails
    THEN [tbl |-> tbl, ret |-> None]
    ELSE AttendanceWrite(tbl, AttendanceExisting(tbl, student_id, date_str),
                         student_id, date_str, face_data, t, fails)


-----------------------------------------------------------------------------
(* The route handlers of app.py: the session, the requests, the responses *)

EmptySession == [username |-> NoVal, role |-> NoVal]   \* session.clear()

Out(kind, target, flash) == [kind |-> kind, target |-> target, flash |-> flash]
Redirect(target, flash) == Out("redirect", target, flash)
Render(template) == Out("render", template, "")
Failure(status) == Out("error", status, "")
\* ToLogin that sends to the index route
ToIndex == Redirect("index", "")
ToLogin == Redirect("login", "")

Methods == {"GET", "POST"}
StaffRoles == {"principal", "teacher"}

\* the request as the handler read it: the route, the method and the input the
\* handler got to use (NoInput on the paths that return before reading any)
NoInput == [none |-> TRUE]
\* redirect(url_for(route)) is followed by the browser with a GET of that route:
\* the number of redirects in a row that led to this request
Hops(route, method) ==
    IF resp.kind = "redirect" /\ resp.target = route /\ method = "GET"
    THEN req.hops + 1
    ELSE 0

Log(route, method, input) ==
    req' = [route |-> route, method |-> method, input |-> input,
            hops |-> Hops(route, method)]

\* a request that changes a table counts against the bound on such requests
Spend(budget) ==
    /\ writes' = IF budget /\ tables' # tables THEN writes + 1 ELSE writes
    /\ writes' <= MaxWrites

\* a handler path that issues no backend write
Quiet(r) ==
    /\ resp' = r
    /\ issued' = {}
    /\ UNCHANGED tables
    /\ UNCHANGED writes

\* what no route handler touches
HandlerFrame == UNCHANGED <<now, ret, procs>>

\* IndexTarget with the teacher branch sending to the principal's dashboard
IndexTargetSwapped(s) ==
    IF s.username # NoVal /\ s.role \in {"principal", "teacher"}
        THEN Redirect("dashboard_principal", "")
    ELSE IF s.username # NoVal /\ s.role = "student"
        THEN Redirect("dashboard_student", "")
    ELSE ToLogin

\* index, lines 200-208: where a session is sent
IndexTarget(s) ==
    IF s.username # NoVal /\ s.role = "principal"
        THEN Redirect("dashboard_principal", "")
    ELSE IF s.username # NoVal /\ s.role = "teacher"
        THEN Redirect("dashboard_teacher", "")
    ELSE IF s.username # NoVal /\ s.role = "student"
        THEN Redirect("dashboard_student", "")
    ELSE ToLogin

\* index
Index ==
    /\ Log("index", "GET", NoInput)
    /\ Quiet(IndexTarget(session))
    /\ UNCHANGED session
    /\ HandlerFrame

\* login, lines 219-227: where a verified user is sent
LoginTarget(role) ==
    IF role = "principal" THEN Redirect("dashboard_principal", "")
    ELSE IF role = "teacher" THEN Redirect("dashboard_teacher", "")
    ELSE IF role = "student" THEN Redirect("dashboard_student", "")
    ELSE Render("login.html")

\* LoginSession without the write of the username
LoginSessionRoleOnly(old, username, user) ==
    [username |-> old.username, role |-> user.role]

\* login, lines 217-218: the session once a user is verified
LoginSession(old, username, user) == [username |-> username, role |-> user.role]

\* login
Login ==
    \E method \in Methods :
        /\ IF method = "GET"
           THEN /\ Log("login", method, NoInput)
                /\ Quiet(Render("login.html"))
                /\ UNCHANGED session
           ELSE \E complete \in BOOLEAN :
                IF ~complete
                THEN /\ Log("login", method, NoInput)
                     /\ Quiet(Failure("400"))
                     /\ UNCHANGED session
                ELSE \E username \in Usernames, password \in Passwords,
                        fails \in FailSets({"users.select"}) :
                     LET user == VerifyUser(users, username, password, fails)
                     IN  /\ Log("login", method,
                                [username |-> username, verified |-> user])
                         /\ IF user.raised # ""
                            THEN /\ Quiet(Failure("500"))
                                 /\ UNCHANGED session
                            ELSE IF user.value # None
                            THEN /\ session' = LoginSession(session, username,
                                                            TheOne(user.value))
                                 /\ Quiet(LoginTarget(TheOne(user.value).role))
                            ELSE /\ Quiet(Out("render", "login.html",
                                              "Invalid username or password"))
                                 /\ UNCHANGED session
        /\ HandlerFrame

\* LogoutSession that pops the username only
LogoutSessionKeepsRole(old) == [username |-> NoVal, role |-> old.role]

\* logout, line 231: session.clear()
LogoutSession(old) == EmptySession

\* logout
Logout ==
    /\ Log("logout", "GET", NoInput)
    /\ session' = LogoutSession(session)
    /\ Quiet(ToLogin)
    /\ HandlerFrame

\* dashboard_principal
DashboardPrincipal ==
    /\ Log("dashboard_principal", "GET", NoInput)
    /\ Quiet(IF session.role # "principal" THEN ToLogin
             ELSE Render("dashboard_principal.html"))
    /\ UNCHANGED session
    /\ HandlerFrame

\* dashboard_teacher
DashboardTeacher ==
    /\ Log("dashboard_teacher", "GET", NoInput)
    /\ Quiet(IF session.role # "teacher" THEN ToLogin
             ELSE Render("dashboard_teacher.html"))
    /\ UNCHANGED session
    /\ HandlerFrame

\* the student record of a user: get_user, then get_student of its student_id
LinkedStudent(username, fails) ==
    LET user == GetUser(users, username, fails)
    IN  IF user # None /\ TheOne(user).student_id # 0
        THEN GetStudent(students, TheOne(user).student_id, fails)
        ELSE None

\* dashboard_student
DashboardStudent ==
    \E fails \in FailSets({"users.select", "students.select"}) :
        /\ Log("dashboard_student", "GET", NoInput)
        /\ Quiet(IF session.role # "student" THEN ToLogin
                 ELSE IF LinkedStudent(session.username, fails) # None
                     THEN Render("dashboard_student.html")
                 ELSE Redirect("login", "Student data not found."))
        /\ UNCHANGED session
        /\ HandlerFrame

-----------------------------------------------------------------------------
(* Student management *)

\* list_students
ListStudents ==
    /\ Log("list_students", "GET", NoInput)
    /\ Quiet(IF session.role \notin StaffRoles THEN ToLogin
             ELSE Render("students.html"))
    /\ UNCHANGED session
    /\ HandlerFrame

\* AddStudentAllowed that only asks for a logged-in role
AddStudentAllowedAnyRole(role) == role # NoVal

\* add_student, lines 33-34: the role check
AddStudentAllowed(role) == role \in StaffRoles

\* add_student
AddStudent ==
    \E method \in Methods :
        /\ IF ~AddStudentAllowed(session.role)
               THEN Log("add_student", method, NoInput) /\ Quiet(ToLogin)
           ELSE IF method = "GET"
               THEN Log("add_student", method, NoInput)
                    /\ Quiet(Render("student_form.html"))
           ELSE \E form \in StudentForms, complete \in BOOLEAN :
                IF ~complete
                    THEN Log("add_student", method, NoInput) /\ Quiet(Failure("400"))
                ELSE IF ParseInt(form.age) = {}
                    THEN Log("add_student", method, NoInput) /\ Quiet(Failure("500"))
                ELSE \E fails \in FailSets({"students.insert"}) :
                     LET new_student ==
                             CreateStudent(students, nextStudentId, form.name,
                                 TheOne(ParseInt(form.age)), form.class,
                                 form.section, NoBlob, fails)
                     IN  /\ nextStudentId <= MaxStudentId
                         /\ Log("add_student", method, [fails |-> fails])
                         /\ students' = new_student.tbl
                         /\ nextStudentId' = IF new_student.ret # None
                                             THEN nextStudentId + 1 ELSE nextStudentId
                         /\ issued' = {"students.insert"}
                         /\ resp' = IF new_student.ret # None
                                    THEN Redirect("list_students",
                                                  "Student added successfully!")
                                    ELSE Redirect("list_students",
                                                  "Error adding student. Please try again.")
                         /\ UNCHANGED <<users, teachers, marks, grades, attendance,
                                        nextTeacherId>>
                         /\ Spend(TRUE)
        /\ UNCHANGED session
        /\ HandlerFrame

\* edit_student
EditStudent ==
    \E student_id \in 1..MaxStudentId, method \in Methods :
        /\ IF session.role \notin StaffRoles
               THEN Log("edit_student", method, NoInput) /\ Quiet(ToLogin)
           ELSE \E fails \in FailSets({"students.select", "students.update"}) :
                IF GetStudent(students, student_id, fails) = None
                    THEN Log("edit_student", method, [id |-> student_id])
                         /\ Quiet(Redirect("list_students", "Student not found."))
                ELSE IF method = "GET"
                    THEN Log("edit_student", method, [id |-> student_id])
                         /\ Quiet(Render("student_form.html"))
                ELSE \E form \in StudentForms, complete \in BOOLEAN :
                     IF ~complete
                         THEN Log("edit_student", method, [id |-> student_id])
                              /\ Quiet(Failure("400"))
                     ELSE IF ParseInt(form.age) = {}
                         THEN Log("edit_student", method, [id |-> student_id])
                              /\ Quiet(Failure("500"))
                     ELSE LET updated_student ==
                                  UpdateStudent(students, student_id,
                                      [name |-> form.name,
                                       age |-> TheOne(ParseInt(form.age)),
                                       class_name |-> form.class,
                                       section |-> form.section],
                                      fails)
                          IN  /\ Log("edit_student", method, [fails |-> fails, id |-> student_id])
                              /\ students' = updated_student.tbl
                              /\ issued' = {"students.update"}
                              /\ resp' = IF updated_student.ret # None
                                         THEN Redirect("list_students",
                                                  "Student updated successfully!")
                                         ELSE Redirect("list_students",
                                                  "Error updating student. Please try again.")
                              /\ UNCHANGED <<users, teachers, marks, grades,
                                             attendance, nextStudentId,
                                             nextTeacherId>>
                              /\ Spend(TRUE)
        /\ UNCHANGED session
        /\ HandlerFrame

\* delete_student (the route accepts POST only)
DeleteStudentRoute ==
    \E student_id \in 1..MaxStudentId, method \in Methods :
        /\ IF method = "GET"
               THEN Log("delete_student", method, NoInput) /\ Quiet(Failure("405"))
           ELSE IF session.role \notin StaffRoles
               THEN Log("delete_student", method, NoInput) /\ Quiet(ToLogin)
           ELSE \E fails \in FailSets({"students.delete"}) :
                LET deleted == DeleteStudent(students, student_id, fails)
                IN  /\ Log("delete_student", method, [fails |-> fails])
                    /\ students' = deleted.tbl
                    /\ issued' = {"students.delete"}
                    /\ resp' = IF deleted.ret
                               THEN Redirect("list_students", "Student deleted successfully!")
                               ELSE Redirect("list_students",
                                             "Error deleting student. Please try again.")
                    /\ UNCHANGED <<users, teachers, marks, grades, attendance,
                                   nextStudentId, nextTeacherId>>
                    /\ Spend(TRUE)
        /\ UNCHANGED session
        /\ HandlerFrame

-----------------------------------------------------------------------------
(* Teacher management *)

\* list_teachers
ListTeachers ==
    /\ Log("list_teachers", "GET", NoInput)
    /\ Quiet(IF session.role # "principal" THEN ToLogin
             ELSE Render("teachers.html"))
    /\ UNCHANGED session
    /\ HandlerFrame

\* add_teacher
AddTeacher ==
    \E method \in Methods :
        /\ IF session.role # "principal"
               THEN Log("add_teacher", method, NoInput) /\ Quiet(ToLogin)
           ELSE IF method = "GET"
               THEN Log("add_teacher", method, NoInput)
                    /\ Quiet(Render("teacher_form.html"))
           ELSE \E form \in TeacherForms, complete \in BOOLEAN,
                   fails \in FailSets({"teachers.insert"}) :
                IF ~complete
               THEN Log("add_teacher", method, NoInput) /\ Quiet(Failure("400"))
           ELSE LET new_teacher == CreateTeacher(teachers, nextTeacherId, form.name,
                                                 form.subject, fails)
                IN  /\ nextTeacherId <= MaxTeacherId
                    /\ Log("add_teacher", method, [fails |-> fails])
                    /\ teachers' = new_teacher.tbl
                    /\ nextTeacherId' = IF new_teacher.ret # None
                                        THEN nextTeacherId + 1 ELSE nextTeacherId
                    /\ issued' = {"teachers.insert"}
                    /\ resp' = IF new_teacher.ret # None
                               THEN Redirect("list_teachers", "Teacher added successfully!")
                               ELSE Redirect("list_teachers",
                                             "Error adding teacher. Please try again.")
                    /\ UNCHANGED <<users, students, marks, grades, attendance,
                                   nextStudentId>>
                    /\ Spend(TRUE)
        /\ UNCHANGED session
        /\ HandlerFrame

\* edit_teacher
EditTeacher ==
    \E teacher_id \in 1..MaxTeacherId, method \in Methods :
        /\ IF session.role # "principal"
               THEN Log("edit_teacher", method, NoInput) /\ Quiet(ToLogin)
           ELSE \E form \in TeacherForms, complete \in BOOLEAN,
                   fails \in FailSets({"teachers.select", "teachers.update"}) :
                IF GetTeacher(teachers, teacher_id, fails) = None
               THEN Log("edit_teacher", method, [id |-> teacher_id])
                    /\ Quiet(Redirect("list_teachers", "Teacher not found."))
           ELSE IF method = "GET"
               THEN Log("edit_teacher", method, [id |-> teacher_id])
                    /\ Quiet(Render("teacher_form.html"))
           ELSE IF ~complete
               THEN Log("edit_teacher", method, [id |-> teacher_id]) /\ Quiet(Failure("400"))
           ELSE LET updated_teacher ==
                        UpdateTeacher(teachers, teacher_id,
                            [name |-> form.name, subject |-> form.subject], fails)
                IN  /\ Log("edit_teacher", method, [fails |-> fails, id |-> teacher_id])
                    /\ teachers' = updated_teacher.tbl
                    /\ issued' = {"teachers.update"}
                    /\ resp' = IF updated_teacher.ret # None
                               THEN Redirect("list_teachers", "Teacher updated successfully!")
                               ELSE Redirect("list_teachers",
                                             "Error updating teacher. Please try again.")
                    /\ UNCHANGED <<users, students, marks, grades, attendance,
                                   nextStudentId, nextTeacherId>>
                    /\ Spend(TRUE)
        /\ UNCHANGED session
        /\ HandlerFrame

\* delete_teacher (the route accepts POST only)
DeleteTeacherRoute ==
    \E teacher_id \in 1..MaxTeacherId, method \in Methods :
        /\ IF method = "GET"
               THEN Log("delete_teacher", method, NoInput) /\ Quiet(Failure("405"))
           ELSE IF session.role # "principal"
               THEN Log("delete_teacher", method, NoInput) /\ Quiet(ToLogin)
           ELSE \E fails \in FailSets({"teachers.delete"}) :
                LET deleted == DeleteTeacher(teachers, teacher_id, fails)
                IN  /\ Log("delete_teacher", method, [fails |-> fails])
                    /\ teachers' = deleted.tbl
                    /\ issued' = {"teachers.delete"}
                    /\ resp' = IF deleted.ret
                               THEN Redirect("list_teachers", "Teacher deleted successfully!")
                               ELSE Redirect("list_teachers",
                                             "Error deleting teacher. Please try again.")
                    /\ UNCHANGED <<users, students, marks, grades, attendance,
                                   nextStudentId, nextTeacherId>>
                    /\ Spend(TRUE)
        /\ UNCHANGED session
        /\ HandlerFrame

-----------------------------------------------------------------------------
(* Marks entry *)

Absent == <<NoVal>>   \* request.form.get(key) of a key the form does not hold

\* the texts typed into one field of the marks form
MarkTexts == {Absent, <<>>, <<"a", "b">>, IntStr(95)}
AllMarkTexts == {Absent, <<>>, <<"a", "b">>, <<"+", "7", "0">>}
                    \cup {IntStr(n) : n \in (0 - MarkMargin)..(100 + MarkMargin)}

\* select_class_section
SelectClassSection ==
    \E method \in Methods, complete \in BOOLEAN :
        /\ Log("select_class_section", method, NoInput)
        /\ Quiet(IF session.role # "teacher" THEN ToLogin
                 ELSE IF method = "GET" THEN Render("select_class_section.html")
                 ELSE IF ~complete THEN Failure("400")
                 ELSE Redirect("enter_marks", ""))
        /\ UNCHANGED session
        /\ HandlerFrame

\* enter_marks, line 157
FilteredStudents(all, class_name, section) ==
    SelectSeq(all, LAMBDA s : s.class = class_name /\ s.section = section)

\* enter_marks, line 159
SubjectsOf(all_teachers) == [i \in 1..Len(all_teachers) |-> all_teachers[i].subject]

\* enter_marks, lines 162-186: the marks dict of one student
RECURSIVE FormMarks(_, _, _)
FormMarks(subjects, student_id, form) ==
    IF subjects = <<>> THEN <<>>
    ELSE LET n == Len(subjects)
             marks_so_far == FormMarks(SubSeq(subjects, 1, n - 1), student_id, form)
             mark_val == form[<<student_id, subjects[n]>>]
         IN  IF mark_val # Absent /\ mark_val # <<>> /\ ParseInt(mark_val) # {}
             THEN DictSet(marks_so_far, subjects[n], TheOne(ParseInt(mark_val)))
             ELSE marks_so_far

\* enter_marks, lines 172-184: the grades dict of one student
FormGrades(subjects, student_id, form) ==
    LET m == FormMarks(subjects, student_id, form)
    IN  [i \in 1..Len(m) |-> [key |-> m[i].key, value |-> GradeOf(m[i].value)]]

\* the calls that raise for one student, out of those that raise in the request
FailsFor(wfails, student_id) == {c[1] : c \in {x \in wfails : x[2] = student_id}}

\* enter_marks, lines 161-192: the loop over the students of the class
RECURSIVE SaveAll(_, _, _, _, _, _)
SaveAll(studs, subjects, form, wfails, m, g) ==
    IF studs = <<>> THEN [marks |-> m, grades |-> g, issued |-> {}]
    ELSE LET student == Head(studs)
             md == FormMarks(subjects, student.id, form)
             gd == FormGrades(subjects, student.id, form)
             f == FailsFor(wfails, student.id)
             m1 == IF md # <<>> THEN SaveMarks(m, student.id, md, f).tbl ELSE m
             g1 == IF gd # <<>> THEN SaveGrades(g, student.id, gd, f).tbl ELSE g
             rest == SaveAll(Tail(studs), subjects, form, wfails, m1, g1)
         IN  [marks |-> rest.marks, grades |-> rest.grades,
              issued |-> rest.issued
                  \cup (IF md # <<>> THEN {"marks.save"} ELSE {})
                  \cup (IF gd # <<>> THEN {"grades.save"} ELSE {})]

MarkWrites == {"marks.delete", "marks.insert", "grades.delete", "grades.insert"}

\* enter_marks, with the mark fields drawn from texts and the failing backend
\* calls drawn from calls
EnterMarksFrom(texts, calls, budget) ==
    \E method \in Methods, class_name \in UrlClasses, section \in Sections,
       fails \in FailSets({"students.select", "teachers.select"}) :
        /\ LET filtered_students ==
                   FilteredStudents(GetAllStudents(students, fails),
                                    class_name, section)
               subjects == SubjectsOf(GetAllTeachers(teachers, fails))
               ids == {s.id : s \in Range(filtered_students)}
               keys == ids \X Range(subjects)
           IN  IF session.role # "teacher"
                   THEN Log("enter_marks", method, NoInput) /\ Quiet(ToLogin)
               ELSE IF method = "GET"
                   THEN Log("enter_marks", method, NoInput)
                        /\ Quiet(Render("enter_marks.html"))
               ELSE \E form \in [keys -> texts],
                       wfails \in FailSets(calls \X ids) :
                       LET saved == SaveAll(filtered_students, subjects, form,
                                            wfails, marks, grades)
                       IN  /\ Log("enter_marks", method,
                                  [form |-> form, wfails |-> wfails, ids |-> ids,
                                   subjects |-> subjects])
                           /\ marks' = saved.marks
                           /\ grades' = saved.grades
                           /\ issued' = saved.issued
                           /\ resp' = Redirect("list_students",
                                               "Marks and grades updated!")
                           /\ UNCHANGED <<users, students, teachers, attendance,
                                          nextStudentId, nextTeacherId>>
                           /\ Spend(budget)
        /\ UNCHANGED session
        /\ HandlerFrame

\* enter_marks
EnterMarks == EnterMarksFrom(MarkTexts, MarkWrites, TRUE)

-----------------------------------------------------------------------------
(* Attendance and faces *)

\* the face_data field the browser posts: none, empty, too short, long enough
FaceInputs == {NoBlob, Img(0, ""), Img(MinFaceLen, "a"), Img(MinFaceLen + 1, "b")}

\* ValidFace with the comparison not strict
ValidFaceAtLeast(face_data) ==
    /\ face_data # NoBlob
    /\ face_data.len # 0
    /\ face_data.len >= MinFaceLen

\* mark_attendance, line 293: "if face_data and len(face_data) > 100"
ValidFace(face_data) ==
    /\ face_data # NoBlob
    /\ face_data.len # 0
    /\ face_data.len > MinFaceLen

\* mark_attendance (the route handler)
MarkAttendance ==
    \E method \in Methods :
            /\ IF session.role # "student"
                   THEN Log("mark_attendance", method, NoInput) /\ Quiet(ToLogin)
               ELSE \E face_data \in FaceInputs,
                       fails \in FailSets({"users.select", "students.select",
                                           "attendance.select", "attendance.update",
                                           "attendance.insert"}) :
                    LET student == LinkedStudent(session.username, fails)
                        today == Today(now)
                    IN
                    IF student = None
                   THEN Log("mark_attendance", method, NoInput)
                        /\ Quiet(Redirect("dashboard_student", "Student data not found."))
               ELSE IF method = "GET"
                   THEN Log("mark_attendance", method, NoInput)
                        /\ Quiet(Render("mark_attendance.html"))
               ELSE IF ~ValidFace(face_data)
                   THEN Log("mark_attendance", method, [face_data |-> face_data])
                        /\ Quiet(Redirect("dashboard_student",
                               "No valid face image captured. Please ensure your camera is working and try again."))
               ELSE LET attendance_record ==
                            MarkAttendanceDb(attendance, TheOne(student).id, today,
                                             face_data, now, fails)
                    IN  /\ Log("mark_attendance", method,
                               [face_data |-> face_data, fails |-> fails])
                        /\ attendance' = attendance_record.tbl
                        /\ issued' = IF "attendance.select" \in fails THEN {}
                                     ELSE {"attendance.write"}
                        /\ resp' = IF attendance_record.ret # None
                                   THEN Redirect("dashboard_student",
                                       "Attendance marked successfully! Face image captured and stored.")
                                   ELSE Redirect("dashboard_student",
                                       "Error marking attendance. Please try again.")
                        /\ UNCHANGED <<users, students, teachers, marks, grades,
                                       nextStudentId, nextTeacherId>>
                        /\ Spend(TRUE)
            /\ UNCHANGED session
            /\ HandlerFrame

\* manage_student_faces
ManageStudentFaces ==
    \E method \in Methods :
        /\ Log("manage_student_faces", method, NoInput)
        /\ Quiet(IF session.role # "teacher" THEN ToLogin
                 ELSE Render("manage_faces.html"))
        /\ UNCHANGED session
        /\ HandlerFrame

\* view_student_face
ViewStudentFace ==
    \E student_id \in 1..MaxStudentId, fails \in FailSets({"students.select"}) :
        /\ Log("view_student_face", "GET", NoInput)
        /\ Quiet(IF session.role # "teacher" THEN ToLogin
                 ELSE IF GetStudent(students, student_id, fails) = None
                     THEN Redirect("manage_student_faces", "Student not found.")
                 ELSE Render("view_student_face.html"))
        /\ UNCHANGED session
        /\ HandlerFrame

\* delete_student_face (the route accepts POST only)
DeleteStudentFaceRoute ==
    \E student_id \in 1..MaxStudentId, method \in Methods :
        /\ IF method = "GET"
               THEN Log("delete_student_face", method, [id |-> student_id])
                    /\ Quiet(Failure("405"))
           ELSE IF session.role # "teacher"
               THEN Log("delete_student_face", method, NoInput) /\ Quiet(ToLogin)
           ELSE \E fails \in FailSets({"students.select", "students.update"}) :
                IF GetStudent(students, student_id, fails) = None
               THEN Log("delete_student_face", method, [id |-> student_id])
                    /\ Quiet(Redirect("manage_student_faces", "Student not found."))
           ELSE LET updated_student == DeleteStudentFace(students, student_id, fails)
                IN  /\ Log("delete_student_face", method, [fails |-> fails, id |-> student_id])
                    /\ students' = updated_student.tbl
                    /\ issued' = {"students.update"}
                    /\ resp' = IF updated_student.ret # None
                               THEN Redirect("manage_student_faces",
                                             "Student face data deleted successfully!")
                               ELSE Redirect("manage_student_faces",
                                             "Error deleting face data. Please try again.")
                    /\ UNCHANGED <<users, teachers, marks, grades, attendance,
                                   nextStudentId, nextTeacherId>>
                    /\ Spend(TRUE)
        /\ UNCHANGED session
        /\ HandlerFrame

-----------------------------------------------------------------------------
(* Reports *)

ReportRoutes == {"reports_dashboard", "attendance_report", "academic_report",
                 "ai_academic_stats"}

\* reports_dashboard, attendance_report, academic_report, and ai_academic_stats
\* of a request that selects no student: the role check and the page
Reports ==
    \E route \in ReportRoutes :
        /\ Log(route, "GET", NoInput)
        /\ Quiet(IF session.role \notin StaffRoles THEN ToLogin
                 ELSE Render(route))
        /\ UNCHANGED session
        /\ HandlerFrame

\* student_report
StudentReport ==
    \E student_id \in 1..MaxStudentId, fails \in FailSets({"students.select"}) :
        /\ Log("student_report", "GET", NoInput)
        /\ Quiet(IF session.role \notin StaffRoles THEN ToLogin
                 ELSE IF GetStudent(students, student_id, fails) = None
                     THEN Redirect("reports_dashboard", "Student not found.")
                 ELSE Render("student_report.html"))
        /\ UNCHANGED session
        /\ HandlerFrame

\* class_report: get_class_statistics is {} when the class has no student
ClassReport ==
    \E class_name \in UrlClasses, section \in Sections,
       fails \in FailSets({"students.select"}) :
        /\ Log("class_report", "GET", NoInput)
        /\ Quiet(IF session.role \notin StaffRoles THEN ToLogin
                 ELSE IF \/ "students.select" \in fails
                         \/ FilteredStudents(students, class_name, section) = <<>>
                     THEN Redirect("reports_dashboard",
                                   "No students found in this class.")
                 ELSE Render("class_report.html"))
        /\ UNCHANGED session
        /\ HandlerFrame

-----------------------------------------------------------------------------
(* The statistics page *)

\* get_student_marks: the dict subject -> mark, where a later row of a subject
\* replaces an earlier one; {} when the backend raises
GetStudentMarks(tbl, student_id, fails) ==
    LET rows == SelectSeq(tbl, LAMBDA r : r.student_id = student_id)
        last(k) == CHOOSE i \in 1..Len(rows) :
                       /\ rows[i].subject = k
                       /\ \A j \in (i + 1)..Len(rows) : rows[j].subject # k
    IN  IF "marks.select" \in fails THEN <<>>
        ELSE [k \in {rows[i].subject : i \in 1..Len(rows)} |-> rows[last(k)].mark]

\* sum(marks.values())
RECURSIVE SumValues(_, _)
SumValues(d, keys) ==
    IF keys = {} THEN 0
    ELSE LET k == CHOOSE x \in keys : TRUE
         IN  d[k] + SumValues(d, keys \ {k})

\* ai_academic_stats, lines 588-597: sum / len is a float, kept here as the
\* fraction num / den; 0 when the dict is empty
AvgMarks(d) ==
    IF DOMAIN d # {}
    THEN [num |-> SumValues(d, DOMAIN d), den |-> Cardinality(DOMAIN d)]
    ELSE [num |-> 0, den |-> 1]

\* avg >= n for a fraction with a positive denominator
AtLeast(avg, n) == avg.num >= n * avg.den

\* PerformanceLevel with strict comparisons
PerformanceLevelStrict(avg_marks) ==
    IF avg_marks.num > 90 * avg_marks.den THEN "Excellent"
    ELSE IF avg_marks.num > 80 * avg_marks.den THEN "Good"
    ELSE IF avg_marks.num > 70 * avg_marks.den THEN "Average"
    ELSE IF avg_marks.num > 60 * avg_marks.den THEN "Below Average"
    ELSE "Needs Improvement"

\* generate_ai_insights, lines 661-676: the performance level
PerformanceLevel(avg_marks) ==
    IF AtLeast(avg_marks, 90) THEN "Excellent"
    ELSE IF AtLeast(avg_marks, 80) THEN "Good"
    ELSE IF AtLeast(avg_marks, 70) THEN "Average"
    ELSE IF AtLeast(avg_marks, 60) THEN "Below Average"
    ELSE "Needs Improvement"

\* get_student_attendance: the dates of the student's records, latest first;
\* [] when the backend raises
GetStudentAttendance(tbl, student_id, fails) ==
    LET rows == SelectSeq(tbl, LAMBDA r : r.student_id = student_id)
        rank == [i \in 1..Len(rows) |->
                    1 + Cardinality({j \in 1..Len(rows) :
                                        \/ rows[j].date > rows[i].date
                                        \/ rows[j].date = rows[i].date /\ j < i})]
    IN  IF "attendance.select" \in fails THEN <<>>
        ELSE [p \in 1..Len(rows) |->
                 rows[CHOOSE i \in 1..Len(rows) : rank[i] = p].date]

\* (attendance_days / 30) * 100 is kept as the fraction 100 * days / SchoolDays
SchoolDays == 30

\* Recommendations without the two default recommendations
RecommendationsNoDefaults(marks_of, avg_marks, attendance_percentage) ==
    (IF DOMAIN marks_of # {} /\ \E k \in DOMAIN marks_of : marks_of[k] < 70
     THEN <<"Provide additional support in a subject">> ELSE <<>>)
    \o (IF ~AtLeast(attendance_percentage, 75)
        THEN <<"Address attendance issues to improve academic outcomes">>
        ELSE <<>>)
    \o (IF ~AtLeast(avg_marks, 75)
        THEN <<"Consider additional tutoring or remedial classes",
               "Implement regular progress monitoring">>
        ELSE <<>>)
    \o (IF ~AtLeast(attendance_percentage, 80)
        THEN <<"Develop attendance improvement plan">> ELSE <<>>)

\* generate_ai_insights, lines 679-690 and 703-724: the recommendations in the
\* order they are appended. worst_subject is the first of the lowest marks in
\* the dict's order.
Recommendations(marks_of, avg_marks, attendance_percentage) ==
    LET worst_subject == CHOOSE k \in DOMAIN marks_of :
                             \A j \in DOMAIN marks_of : marks_of[k] <= marks_of[j]
        rules ==
            (IF DOMAIN marks_of # {} /\ marks_of[worst_subject] < 70
             THEN <<"Provide additional support in " \o worst_subject>>
             ELSE <<>>)
            \o (IF AtLeast(attendance_percentage, 95) THEN <<>>
                ELSE IF AtLeast(attendance_percentage, 85) THEN <<>>
                ELSE IF AtLeast(attendance_percentage, 75) THEN <<>>
                ELSE <<"Address attendance issues to improve academic outcomes">>)
            \o (IF ~AtLeast(avg_marks, 75)
                THEN <<"Consider additional tutoring or remedial classes",
                       "Implement regular progress monitoring">>
                ELSE <<>>)
            \o (IF ~AtLeast(attendance_percentage, 80)
                THEN <<"Develop attendance improvement plan">>
                ELSE <<>>)
    IN  IF rules = <<>>
        THEN <<"Continue current academic support strategies",
               "Encourage participation in advanced learning opportunities">>
        ELSE rules

\* ai_academic_stats with its query string and the data of the selected
\* student: ret is selected_student_data, None when no student is selected or
\* found
AiAcademicStats ==
    \E method \in Methods,
       selected \in {Absent, <<>>, <<"a", "b">>, IntStr(1), IntStr(2)},
       fails \in FailSets({"students.select", "marks.select",
                           "attendance.select"}) :
        LET chosen == selected # Absent /\ selected # <<>>
            student == IF chosen /\ ParseInt(selected) # {}
                       THEN GetStudent(students, TheOne(ParseInt(selected)), fails)
                       ELSE None
            marks_of == GetStudentMarks(marks, TheOne(student).id, fails)
            attendance_days ==
                Len(GetStudentAttendance(attendance, TheOne(student).id, fails))
        IN  /\ Log("ai_academic_stats", method,
                   IF session.role \notin StaffRoles THEN NoInput
                   ELSE [selected |-> selected, failing |-> fails])
            /\ IF session.role \notin StaffRoles
               THEN Quiet(ToLogin) /\ UNCHANGED ret
               ELSE IF chosen /\ ParseInt(selected) = {}
               THEN Quiet(Failure("500")) /\ UNCHANGED ret
               ELSE /\ Quiet(Render("ai_academic_stats.html"))
                    /\ ret' = IF student = None THEN None
                              ELSE Some([student |-> TheOne(student).id,
                                         subject_performance |-> marks_of,
                                         avg_marks |-> AvgMarks(marks_of),
                                         attendance_days |-> attendance_days,
                                         performance_level |->
                                             PerformanceLevel(AvgMarks(marks_of)),
                                         recommendations |->
                                             Recommendations(marks_of,
                                                 AvgMarks(marks_of),
                                                 [num |-> 100 * attendance_days,
                                                  den |-> SchoolDays])])
            /\ UNCHANGED <<session, now, procs>>

\* get_student_grades: the dict subject -> grade, where a later row of a subject
\* replaces an earlier one; {} when the backend raises
GetStudentGrades(tbl, student_id, fails) ==
    LET rows == SelectSeq(tbl, LAMBDA r : r.student_id = student_id)
        last(k) == CHOOSE i \in 1..Len(rows) :
                       /\ rows[i].subject = k
                       /\ \A j \in (i + 1)..Len(rows) : rows[j].subject # k
    IN  IF "grades.select" \in fails THEN <<>>
        ELSE [k \in {rows[i].subject : i \in 1..Len(rows)} |-> rows[last(k)].grade]

\* Round2 that cuts the digits after the second decimal
Round2Down(x) == (100 * x.num) \div x.den

\* round(x, 2) of a fraction, in hundredths: the nearest hundredth, and the even
\* one of the two when x is half way (the fractions that are half way here have
\* a power of two as denominator, so the float is the fraction itself)
Round2(x) ==
    LET q == (100 * x.num) \div x.den
        r == (100 * x.num) % x.den
    IN  IF 2 * r > x.den \/ (2 * r = x.den /\ q % 2 = 1) THEN q + 1 ELSE q

\* student_report with its report_data, which ret holds once the page is
\* rendered
StudentReportPage ==
    \E student_id \in 1..MaxStudentId,
       fails \in FailSets({"students.select", "marks.select", "grades.select",
                           "attendance.select"}) :
        LET student == GetStudent(students, student_id, fails)
            marks_of == GetStudentMarks(marks, student_id, fails)
            grades_of == GetStudentGrades(grades, student_id, fails)
            attendance_of == GetStudentAttendance(attendance, student_id, fails)
            report_data ==
                [student |-> student_id,
                 attendance_percentage |->
                     Round2([num |-> 100 * Len(attendance_of), den |-> SchoolDays]),
                 average_marks |-> Round2(AvgMarks(marks_of)),
                 grade_distribution |->
                     [g \in {grades_of[k] : k \in DOMAIN grades_of} |->
                         Cardinality({k \in DOMAIN grades_of : grades_of[k] = g})],
                 total_subjects |-> Cardinality(DOMAIN marks_of),
                 total_attendance_days |-> Len(attendance_of)]
        IN  /\ Log("student_report", "GET",
                   IF session.role \notin StaffRoles THEN NoInput
                   ELSE [id |-> student_id, failing |-> fails])
            /\ IF session.role \notin StaffRoles
               THEN Quiet(ToLogin) /\ UNCHANGED ret
               ELSE IF student = None
               THEN /\ Quiet(Redirect("reports_dashboard", "Student not found."))
                    /\ UNCHANGED ret
               ELSE /\ Quiet(Render("student_report.html"))
                    /\ ret' = Some(report_data)
            /\ UNCHANGED <<session, now, procs>>

-----------------------------------------------------------------------------
(* The application *)

\* the clock advances
Tick ==
    /\ now < MaxNow
    /\ now' = now + 1
    /\ UNCHANGED <<session, tables, req, resp, issued, ret, procs, writes>>

InitStudents ==
    << [id |-> 1, name |-> "Ann", age |-> 12, class |-> "10", section |-> "A",
        class_name |-> NoVal, face_data |-> Img(MinFaceLen + 1, "a")] >>

InitTeachers == << [id |-> 1, name |-> "Bob", subject |-> "math"] >>

NoRequest == [route |-> "", method |-> "", input |-> NoInput, hops |-> 0]
NoProcs == <<>>

Init ==
    /\ session = EmptySession
    /\ users = InitUsers
    /\ students = InitStudents
    /\ teachers = InitTeachers
    /\ marks = <<>>
    /\ grades = <<>>
    /\ attendance = <<>>
    /\ nextStudentId = 2
    /\ nextTeacherId = 2
    /\ now = 0
    /\ req = NoRequest
    /\ resp = Out("", "", "")
    /\ issued = {}
    /\ ret = None
    /\ procs = NoProcs
    /\ writes = 0

Next ==
    \/ Index \/ Login \/ Logout
    \/ DashboardPrincipal \/ DashboardTeacher \/ DashboardStudent
    \/ ListStudents \/ AddStudent \/ EditStudent \/ DeleteStudentRoute
    \/ ListTeachers \/ AddTeacher \/ EditTeacher \/ DeleteTeacherRoute
    \/ SelectClassSection \/ EnterMarks
    \/ MarkAttendance
    \/ ManageStudentFaces \/ ViewStudentFace \/ DeleteStudentFaceRoute
    \/ Reports \/ StudentReport \/ ClassReport

Spec == Init /\ [][Next]_vars

-----------------------------------------------------------------------------
(* Marks entry over the whole range of marks: a logged-in teacher submits     *)
(* any number for the one student and subject                                 *)

EnterMarksAll == EnterMarksFrom(AllMarkTexts, {"grades.insert"}, FALSE)

\* teacher2 has logged in
InitGrades ==
    /\ session = [username |-> "teacher2", role |-> "teacher"]
    /\ users = InitUsers
    /\ students = InitStudents
    /\ teachers = InitTeachers
    /\ marks = <<>>
    /\ grades = <<>>
    /\ attendance = <<>>
    /\ nextStudentId = 2
    /\ nextTeacherId = 2
    /\ now = 0
    /\ req = NoRequest
    /\ resp = Out("", "", "")
    /\ issued = {}
    /\ ret = None
    /\ procs = NoProcs
    /\ writes = 0

NextGrades == EnterMarksAll \/ Logout

SpecGrades == InitGrades /\ [][NextGrades]_vars

-----------------------------------------------------------------------------
(* DatabaseService called directly: attendance *)

AttendanceStudents == {1, 2}
AttendanceFaces == {Img(MinFaceLen + 1, "a"), Img(MinFaceLen + 1, "b")}
AttendanceCalls == {"attendance.select", "attendance.update", "attendance.insert"}

\* a completed call of DatabaseService.mark_attendance
DbMarkAttendance ==
    \E student_id \in AttendanceStudents, date_str \in 0..Today(MaxNow),
       face_data \in AttendanceFaces, fails \in FailSets(AttendanceCalls) :
        LET done == MarkAttendanceDb(attendance, student_id, date_str, face_data,
                                     now, fails)
        IN  /\ Len(done.tbl) <= MaxAttendance
            /\ attendance' = done.tbl
            /\ ret' = done.ret
            /\ Log("db.mark_attendance", "",
                   [student_id |-> student_id, date |-> date_str,
                    face_data |-> face_data])
            /\ UNCHANGED <<session, users, students, teachers, marks, grades,
                           nextStudentId, nextTeacherId, now, resp, issued,
                           procs, writes>>

NextAttendance == DbMarkAttendance \/ Tick

SpecAttendance == Init /\ [][NextAttendance]_vars

-----------------------------------------------------------------------------
(* DatabaseService called directly: users *)

NewUsernames == {"teacher3", "teacher4"}

\* a call of DatabaseService.create_user
DbCreateUser ==
    \E username \in NewUsernames, password \in Passwords,
       fails \in FailSets({"users.insert"}) :
        LET done == CreateUser(users, username, password, "teacher", 0, fails)
        IN  /\ Len(users) < Len(InitUsers) + MaxUsers
            /\ users' = done.tbl
            /\ ret' = [raised |-> "", value |-> done.ret]
            /\ Log("db.create_user", "",
                   [username |-> username, password |-> password, fails |-> fails])
            /\ UNCHANGED <<session, students, teachers, marks, grades, attendance,
                           nextStudentId, nextTeacherId, now, resp, issued,
                           procs, writes>>

\* a call of DatabaseService.verify_user
DbVerifyUser ==
    \E username \in Usernames \cup NewUsernames, password \in Passwords,
       fails \in FailSets({"users.select"}) :
        /\ ret' = VerifyUser(users, username, password, fails)
        /\ Log("db.verify_user", "",
               [username |-> username, password |-> password, fails |-> fails])
        /\ UNCHANGED <<session, tables, now, resp, issued, procs, writes>>

NextUsers == DbCreateUser \/ DbVerifyUser

SpecUsers == Init /\ [][NextUsers]_vars

-----------------------------------------------------------------------------
(* Two overlapping calls of DatabaseService.mark_attendance: the threads of   *)
(* the server interleave between the existence check (line 251) and the       *)
(* update or insert that follows it                                           *)

Threads == {1, 2}

Idle == [pc |-> "idle", student_id |-> 0, date |-> 0, face_data |-> NoBlob,
         existing |-> <<>>]

\* a thread enters mark_attendance
RaceCall(p) ==
    \E student_id \in AttendanceStudents, face_data \in AttendanceFaces :
        /\ procs[p].pc = "idle"
        /\ Len(attendance) < MaxAttendance
        /\ procs' = [procs EXCEPT ![p] =
                        [pc |-> "check", student_id |-> student_id,
                         date |-> Today(now), face_data |-> face_data,
                         existing |-> <<>>]]
        /\ UNCHANGED <<session, tables, now, req, resp, issued, ret, writes>>

\* line 251: the existence check
RaceCheck(p) ==
    /\ procs[p].pc = "check"
    /\ procs' = [procs EXCEPT ![p].pc = "write",
                              ![p].existing =
                                  AttendanceExisting(attendance, procs[p].student_id,
                                                     procs[p].date)]
    /\ UNCHANGED <<session, tables, now, req, resp, issued, ret, writes>>

\* lines 253-270: the update or the insert, on what the check saw
RaceWrite(p) ==
    LET done == AttendanceWrite(attendance, procs[p].existing, procs[p].student_id,
                                procs[p].date, procs[p].face_data, now, {})
    IN  /\ procs[p].pc = "write"
        /\ attendance' = done.tbl
        /\ procs' = [procs EXCEPT ![p] = Idle]
        /\ UNCHANGED <<session, users, students, teachers, marks, grades,
                       nextStudentId, nextTeacherId, now, req, resp, issued, ret,
                       writes>>

InitRace ==
    /\ session = EmptySession
    /\ users = InitUsers
    /\ students = InitStudents
    /\ teachers = InitTeachers
    /\ marks = <<>>
    /\ grades = <<>>
    /\ attendance = <<>>
    /\ nextStudentId = 2
    /\ nextTeacherId = 2
    /\ now = 0
    /\ req = NoRequest
    /\ resp = Out("", "", "")
    /\ issued = {}
    /\ ret = None
    /\ procs = [p \in Threads |-> Idle]
    /\ writes = 0

NextRace ==
    \/ \E p \in Threads : RaceCall(p)
    \/ \E p \in Threads : RaceCheck(p)
    \/ \E p \in Threads : RaceWrite(p)
    \/ Tick

SpecRace == InitRace /\ [][NextRace]_vars

-----------------------------------------------------------------------------
(* The claims *)

GradeLetters == {"A", "B", "C", "D", "E", "F"}

\* the threshold table of the data model, one band per letter
InBand(g, m) ==
    IF g = "A" THEN m >= 90
    ELSE IF g = "B" THEN 80 <= m /\ m < 90
    ELSE IF g = "C" THEN 70 <= m /\ m < 80
    ELSE IF g = "D" THEN 60 <= m /\ m < 70
    ELSE IF g = "E" THEN 40 <= m /\ m < 60
    ELSE m < 40

MarkRange == (0 - MarkMargin)..(100 + MarkMargin)

GradeRows(student_id, subject) ==
    SelectSeq(grades, LAMBDA r : r.student_id = student_id /\ r.subject = subject)

EnterMarksPosted ==
    req.route = "enter_marks" /\ req.method = "POST" /\ req.input # NoInput

\* C1: every integer mark n a teacher submits through enter_marks (negative and
\* above 100 included) leaves, when the grades are saved, exactly one grade row
\* for that student and subject, and its letter is the one band of the
\* threshold table that n falls in; every integer falls in exactly one band.
C1_GradeByThresholdTable ==
    /\ \A n \in MarkRange : Cardinality({g \in GradeLetters : InBand(g, n)}) = 1
    /\ EnterMarksPosted =>
         \A k \in DOMAIN req.input.form : \A n \in MarkRange :
             /\ req.input.form[k] = IntStr(n)
             /\ <<"grades.insert", k[1]>> \notin req.input.wfails
             => /\ Len(GradeRows(k[1], k[2])) = 1
                /\ InBand(GradeRows(k[1], k[2])[1].grade, n)

\* a negative mark was submitted and graded F
C1_Witness ==
    /\ EnterMarksPosted
    /\ \E k \in DOMAIN req.input.form :
           /\ req.input.form[k] = IntStr(0 - 1)
           /\ GradeRows(k[1], k[2]) =
                  <<[student_id |-> k[1], subject |-> k[2], grade |-> "F"]>>

NoDuplicateKeys(tbl) ==
    \A i, j \in 1..Len(tbl) :
        i # j => ~(tbl[i].student_id = tbl[j].student_id /\ tbl[i].date = tbl[j].date)

HasKey(tbl, student_id, date_str) ==
    \E i \in 1..Len(tbl) : AttendanceMatch(tbl[i], student_id, date_str)

DbMarkAttendanceCalled == req.route = "db.mark_attendance"

\* C2: after any sequence of completed mark_attendance calls the attendance
\* table holds at most one record per (student_id, date), and a call for a pair
\* that already has a record does not add a record.
C2_OneRecordPerStudentAndDate ==
    [][ /\ NoDuplicateKeys(attendance')
        /\ (/\ DbMarkAttendanceCalled'
            /\ HasKey(attendance, req'.input.student_id, req'.input.date))
           => Len(attendance') = Len(attendance) ]_vars

\* two records are stored and the last call updated one of them
C2_Witness ==
    /\ DbMarkAttendanceCalled
    /\ Len(attendance) = 2
    /\ ret # None
    /\ TheOne(ret).updated_at > TheOne(ret).created_at

WriteRoutes == {"add_student", "edit_student", "delete_student",
                "add_teacher", "edit_teacher", "delete_teacher",
                "enter_marks", "delete_student_face", "mark_attendance"}

AllowedRoles(route) ==
    IF route \in {"add_student", "edit_student", "delete_student"}
        THEN {"principal", "teacher"}
    ELSE IF route \in {"add_teacher", "edit_teacher", "delete_teacher"}
        THEN {"principal"}
    ELSE IF route \in {"enter_marks", "delete_student_face"} THEN {"teacher"}
    ELSE IF route = "mark_attendance" THEN {"student"}
    ELSE {}

\* the request reached the handler (Flask answers 405 itself when the route
\* does not accept the method)
Dispatched(r) == r # Failure("405")

\* C3: a handler issues a backend write, or changes a table, only when the
\* session role is in the handler's allowed set; with any other role, or no
\* session, the request is redirected to login and every table is unchanged.
\* The handlers outside the nine writing ones never write.
C3_WritesNeedTheRole ==
    [][ /\ req'.route \notin WriteRoutes => issued' = {} /\ tables' = tables
        /\ (req'.route \in WriteRoutes /\ Dispatched(resp'))
           => /\ (issued' # {} \/ tables' # tables)
                  => session.role \in AllowedRoles(req'.route)
              /\ session.role \notin AllowedRoles(req'.route)
                  => resp' = ToLogin /\ issued' = {} /\ tables' = tables ]_vars

\* a teacher posted to add_teacher and was sent to login
C3_Witness ==
    /\ req.route = "add_teacher"
    /\ req.method = "POST"
    /\ session.role = "teacher"
    /\ resp = ToLogin
    /\ writes = 1

DashboardRoute(role) ==
    IF role = "principal" THEN "dashboard_principal"
    ELSE IF role = "teacher" THEN "dashboard_teacher"
    ELSE "dashboard_student"

DashboardTemplate(role) ==
    IF role = "principal" THEN "dashboard_principal.html"
    ELSE IF role = "teacher" THEN "dashboard_teacher.html"
    ELSE "dashboard_student.html"

\* C4: a dashboard page is rendered only for a session of its own role, and
\* index redirects a session that holds a username and one of the three roles
\* to that role's dashboard and every other session to login.
C4_DashboardsByRole ==
    /\ \A role \in Roles :
           resp = Render(DashboardTemplate(role)) => session.role = role
    /\ req.route = "index" =>
           resp = IF session.username # NoVal /\ session.role \in Roles
                  THEN Redirect(DashboardRoute(session.role), "")
                  ELSE ToLogin

\* index sent a teacher to the teacher's dashboard
C4_Witness ==
    /\ req.route = "index"
    /\ session.role = "teacher"
    /\ resp = Redirect("dashboard_teacher", "")

LoginPosted == req.route = "login" /\ req.input # NoInput

\* C6: the session changes only in logout and in a POST /login whose
\* verify_user returned a user, which sets the username to the submitted one
\* and the role to that user's stored role; a POST /login whose verify_user
\* returned None leaves the session as it was and shows the flash; a session
\* that holds a role holds a username.
C6_LoginWritesTheSession ==
    [][ /\ session' # session
           => \/ req'.route = "logout"
              \/ /\ LoginPosted'
                 /\ req'.input.verified.raised = ""
                 /\ req'.input.verified.value # None
                 /\ session' = [username |-> req'.input.username,
                                role |-> TheOne(req'.input.verified.value).role]
                 /\ TheOne(req'.input.verified.value)
                        \in Range(users)
        /\ (LoginPosted' /\ req'.input.verified.value # None)
           => /\ session'.username = req'.input.username
              /\ session'.role = TheOne(req'.input.verified.value).role
        /\ (/\ LoginPosted'
            /\ req'.input.verified.raised = ""
            /\ req'.input.verified.value = None)
           => /\ session' = session
              /\ resp' = Out("render", "login.html", "Invalid username or password")
        /\ session'.role # NoVal => session'.username # NoVal ]_vars

\* a logged-in teacher posted a wrong password and is still logged in
C6_Witness ==
    /\ LoginPosted
    /\ req.input.verified.value = None
    /\ req.input.username = "principal1"
    /\ session = [username |-> "teacher2", role |-> "teacher"]

ProtectedRoutes ==
    WriteRoutes \cup ReportRoutes
        \cup {"list_students", "list_teachers", "select_class_section",
              "manage_student_faces", "view_student_face", "student_report",
              "class_report", "dashboard_principal", "dashboard_teacher",
              "dashboard_student"}

\* C7: logout empties the session; while the session is empty (from a logout
\* to the next login that verifies a user) every role-protected route redirects
\* to login and issues no backend write, and the session stays empty.
C7_LoggedOutIsLockedOut ==
    [][ /\ req'.route = "logout" => session' = EmptySession
        /\ (session = EmptySession /\ req'.route \in ProtectedRoutes
                /\ Dispatched(resp'))
           => /\ resp' = ToLogin
              /\ issued' = {}
              /\ tables' = tables
              /\ session' = EmptySession
        /\ (session = EmptySession /\ session' # EmptySession)
           => LoginPosted' /\ req'.input.verified.value # None ]_vars

\* after a write and a logout, a POST to delete_student was sent to login
C7_Witness ==
    /\ session = EmptySession
    /\ writes = 1
    /\ req.route = "delete_student"
    /\ req.method = "POST"
    /\ resp = ToLogin

\* the backend call of each handler of C9, its list page and its error flash
RaisingCall(route) ==
    IF route = "add_student" THEN "students.insert"
    ELSE IF route = "edit_student" THEN "students.update"
    ELSE IF route = "delete_student" THEN "students.delete"
    ELSE IF route = "add_teacher" THEN "teachers.insert"
    ELSE IF route = "edit_teacher" THEN "teachers.update"
    ELSE "teachers.delete"

ErrorReply(route) ==
    IF route = "add_student"
        THEN Redirect("list_students", "Error adding student. Please try again.")
    ELSE IF route = "edit_student"
        THEN Redirect("list_students", "Error updating student. Please try again.")
    ELSE IF route = "delete_student"
        THEN Redirect("list_students", "Error deleting student. Please try again.")
    ELSE IF route = "add_teacher"
        THEN Redirect("list_teachers", "Error adding teacher. Please try again.")
    ELSE IF route = "edit_teacher"
        THEN Redirect("list_teachers", "Error updating teacher. Please try again.")
    ELSE Redirect("list_teachers", "Error deleting teacher. Please try again.")

CrudRoutes == {"add_student", "edit_student", "delete_student",
               "add_teacher", "edit_teacher", "delete_teacher"}

\* C9: when the backend call raises inside create_student, update_student,
\* delete_student, create_teacher, update_teacher or delete_teacher, the method
\* returns None (create, update) or False (delete) instead of raising, the
\* handler answers with its error flash and a redirect to its list page, and
\* the session is unchanged.
C9_BackendErrorIsFlashed ==
    [][ /\ \A f \in StudentForms, id \in 1..MaxStudentId :
               /\ CreateStudent(students, nextStudentId, f.name, 13, f.class,
                                f.section, NoBlob, {"students.insert"}).ret = None
               /\ UpdateStudent(students, id, [name |-> f.name],
                                {"students.update"}).ret = None
               /\ DeleteStudent(students, id, {"students.delete"}).ret = FALSE
        /\ \A f \in TeacherForms, id \in 1..MaxTeacherId :
               /\ CreateTeacher(teachers, nextTeacherId, f.name, f.subject,
                                {"teachers.insert"}).ret = None
               /\ UpdateTeacher(teachers, id, [name |-> f.name],
                                {"teachers.update"}).ret = None
               /\ DeleteTeacher(teachers, id, {"teachers.delete"}).ret = FALSE
        /\ (/\ req'.route \in CrudRoutes
            /\ "fails" \in DOMAIN req'.input
            /\ RaisingCall(req'.route) \in req'.input.fails)
           => /\ resp' = ErrorReply(req'.route)
              /\ session' = session ]_vars

\* the delete of a student raised and the principal got the error flash
C9_Witness ==
    /\ req.route = "delete_student"
    /\ req.input # NoInput
    /\ "students.delete" \in req.input.fails
    /\ session.role = "principal"
    /\ resp = Redirect("list_students", "Error deleting student. Please try again.")

\* C5: a successful mark_attendance for (student, date) leaves that record's
\* face_data equal to the blob passed in; when a record for the pair already
\* exists, the call changes only face_data and updated_at of that record, and
\* student_id, date, every other record and the number of records are as before.
C5_FaceDataStoredVerbatim ==
    [][ (DbMarkAttendanceCalled' /\ ret' # None)
        => LET student_id == req'.input.student_id
               date_str == req'.input.date
               blob == req'.input.face_data
           IN  /\ TheOne(ret').face_data = blob
               /\ HasKey(attendance', student_id, date_str)
               /\ \A i \in 1..Len(attendance') :
                      AttendanceMatch(attendance'[i], student_id, date_str)
                          => attendance'[i].face_data = blob
               /\ HasKey(attendance, student_id, date_str)
                  => /\ Len(attendance') = Len(attendance)
                     /\ \A i \in 1..Len(attendance) :
                            IF AttendanceMatch(attendance[i], student_id, date_str)
                            THEN attendance'[i] =
                                     [attendance[i] EXCEPT
                                          !.face_data = blob,
                                          !.updated_at = attendance'[i].updated_at]
                            ELSE attendance'[i] = attendance[i] ]_vars

\* a stored record was overwritten with another blob at a later time
C5_Witness ==
    /\ DbMarkAttendanceCalled
    /\ ret # None
    /\ TheOne(ret).face_data = Img(MinFaceLen + 1, "b")
    /\ TheOne(ret).created_at = 0
    /\ TheOne(ret).updated_at = 1
    /\ Len(attendance) = 1

\* the stored hash is the hash of the password, in either of the two formats
HashMatches(hash, password) ==
    hash = BcryptHash(password) \/ hash = GeneratePasswordHash(password)

\* C8: verify_user returns the stored user record when the user exists and the
\* password matches the stored hash, bcrypt or werkzeug, and returns None when
\* the user does not exist or the password does not match.
C8_VerifyUserReturns ==
    req.route = "db.verify_user" =>
        LET user == GetUser(users, req.input.username, req.input.fails)
        IN  ret = [raised |-> "",
                   value |-> IF /\ user # None
                                /\ HashMatches(TheOne(user).password_hash,
                                               req.input.password)
                             THEN user
                             ELSE None]

\* C10: the attendance table holds at most one record per (student_id, date)
\* also when two mark_attendance requests for the same pair overlap.
C10_OneRecordWhenInterleaved ==
    \A i, j \in 1..Len(attendance) :
        (/\ attendance[i].student_id = attendance[j].student_id
         /\ attendance[i].date = attendance[j].date)
        => i = j

-----------------------------------------------------------------------------
(* Two overlapping calls of DatabaseService.save_marks: the threads of the    *)
(* server interleave between the delete (line 178) and the insert (line 191)  *)

MaxMarkRows == 3

\* the dicts the callers pass
MarksDicts == {<<[key |-> "math", value |-> 50]>>,
               <<[key |-> "math", value |-> 95], [key |-> "sci", value |-> 70]>>}

MarksIdle == [pc |-> "idle", student_id |-> 0, marks_data |-> <<>>]

\* a thread enters save_marks
MarksCall(p) ==
    \E student_id \in AttendanceStudents, marks_data \in MarksDicts :
        /\ procs[p].pc = "idle"
        /\ procs' = [procs EXCEPT ![p] = [pc |-> "delete",
                                          student_id |-> student_id,
                                          marks_data |-> marks_data]]
        /\ UNCHANGED <<session, tables, now, req, resp, issued, ret, writes>>

\* line 178: the delete of the student's rows
MarksDelete(p) ==
    /\ procs[p].pc = "delete"
    /\ marks' = MarksDeleted(marks, procs[p].student_id)
    /\ procs' = [procs EXCEPT ![p].pc = "insert"]
    /\ UNCHANGED <<session, users, students, teachers, grades, attendance,
                   nextStudentId, nextTeacherId, now, req, resp, issued, ret,
                   writes>>

\* lines 190-192: the insert of the new records
MarksInsert(p) ==
    /\ procs[p].pc = "insert"
    /\ marks' = marks \o MarksRecords(procs[p].student_id, procs[p].marks_data)
    /\ Len(marks') <= MaxMarkRows
    /\ procs' = [procs EXCEPT ![p] = MarksIdle]
    /\ UNCHANGED <<session, users, students, teachers, grades, attendance,
                   nextStudentId, nextTeacherId, now, req, resp, issued, ret,
                   writes>>

InitMarksRace ==
    /\ session = EmptySession
    /\ users = InitUsers
    /\ students = InitStudents
    /\ teachers = InitTeachers
    /\ marks = <<>>
    /\ grades = <<>>
    /\ attendance = <<>>
    /\ nextStudentId = 2
    /\ nextTeacherId = 2
    /\ now = 0
    /\ req = NoRequest
    /\ resp = Out("", "", "")
    /\ issued = {}
    /\ ret = None
    /\ procs = [p \in Threads |-> MarksIdle]
    /\ writes = 0

NextMarksRace ==
    \/ \E p \in Threads : MarksCall(p)
    \/ \E p \in Threads : MarksDelete(p)
    \/ \E p \in Threads : MarksInsert(p)

SpecMarksRace == InitMarksRace /\ [][NextMarksRace]_vars

\* C11: the marks table holds at most one row per (student_id, subject), so
\* that a mark is a function of (student, subject), after any interleaving of
\* two save_marks calls for the same student.
C11_OneMarkPerSubjectWhenInterleaved ==
    \A i, j \in 1..Len(marks) :
        (/\ marks[i].student_id = marks[j].student_id
         /\ marks[i].subject = marks[j].subject)
        => i = j

-----------------------------------------------------------------------------
(* Marks entry with inserts that raise: a logged-in teacher submits the form  *)
(* of the one student several times                                           *)

FewMarkTexts == {<<>>, <<"a", "b">>, IntStr(95), IntStr(50)}

EnterMarksFailing ==
    EnterMarksFrom(FewMarkTexts, {"marks.insert", "grades.insert"}, FALSE)

NextMarksFail == EnterMarksFailing \/ Logout

SpecMarksFail == InitGrades /\ [][NextMarksFail]_vars

RowsOf(tbl, student_id) == SelectSeq(tbl, LAMBDA r : r.student_id = student_id)

\* the student has a field of the posted form that parses as an integer
HasParseableMark(student_id) ==
    \E k \in DOMAIN req.input.form :
        k[1] = student_id /\ ParseInt(req.input.form[k]) # {}

\* C12: save_marks and save_grades are not transactions: when the delete
\* succeeds and the insert raises, the method returns [] and the table holds
\* none of the student's rows, the earlier ones included; enter_marks still
\* answers with the flash 'Marks and grades updated!'.
C12_FailedInsertLosesRows ==
    [][ /\ \A student_id \in AttendanceStudents, d \in MarksDicts :
               /\ SaveMarks(marks, student_id, d, {"marks.insert"})
                      = [tbl |-> SelectSeq(marks,
                                     LAMBDA r : r.student_id # student_id),
                         ret |-> <<>>]
               /\ SaveGrades(grades, student_id, d, {"grades.insert"})
                      = [tbl |-> SelectSeq(grades,
                                     LAMBDA r : r.student_id # student_id),
                         ret |-> <<>>]
        /\ EnterMarksPosted' =>
               /\ resp' = Redirect("list_students", "Marks and grades updated!")
               /\ \A student_id \in req'.input.ids :
                      HasParseableMark(student_id)' =>
                          /\ <<"marks.insert", student_id>> \in req'.input.wfails
                                 => RowsOf(marks', student_id) = <<>>
                          /\ <<"grades.insert", student_id>> \in req'.input.wfails
                                 => RowsOf(grades', student_id) = <<>> ]_vars

\* the insert of the marks raised: the student has grades and no marks
C12_Witness ==
    /\ EnterMarksPosted
    /\ req.input.wfails = {<<"marks.insert", 1>>}
    /\ HasParseableMark(1)
    /\ RowsOf(marks, 1) = <<>>
    /\ RowsOf(grades, 1) # <<>>
    /\ resp = Redirect("list_students", "Marks and grades updated!")

-----------------------------------------------------------------------------
(* Marks entry with no failing write: a logged-in teacher submits the forms   *)
(* of a class of two students and two subjects                                *)

ThreeStudents ==
    << [id |-> 2, name |-> "Bob", age |-> 12, class |-> "10", section |-> "A",
        class_name |-> NoVal, face_data |-> NoBlob],
       [id |-> 1, name |-> "Ann", age |-> 12, class |-> "10", section |-> "A",
        class_name |-> NoVal, face_data |-> NoBlob],
       [id |-> 3, name |-> "Bob", age |-> 13, class |-> "10", section |-> "B",
        class_name |-> NoVal, face_data |-> NoBlob] >>

TwoTeachers == << [id |-> 1, name |-> "Bob", subject |-> "math"],
                  [id |-> 2, name |-> "Ann", subject |-> "sci"] >>

ClassMarkTexts == {<<"a", "b">>, IntStr(95), IntStr(50)}

EnterMarksClean == EnterMarksFrom(ClassMarkTexts, {}, FALSE)

InitMarks ==
    /\ session = [username |-> "teacher2", role |-> "teacher"]
    /\ users = InitUsers
    /\ students = SubSeq(ThreeStudents, 1, 2)
    /\ teachers = TwoTeachers
    /\ marks = <<>>
    /\ grades = <<>>
    /\ attendance = <<>>
    /\ nextStudentId = 3
    /\ nextTeacherId = 3
    /\ now = 0
    /\ req = NoRequest
    /\ resp = Out("", "", "")
    /\ issued = {}
    /\ ret = None
    /\ procs = NoProcs
    /\ writes = 0

NextMarks == EnterMarksClean \/ Logout

SpecMarks == InitMarks /\ [][NextMarks]_vars

SubjectsIn(tbl, student_id) == {r.subject : r \in Range(RowsOf(tbl, student_id))}

\* C13: from empty marks and grades tables, after any sequence of enter_marks
\* submissions with no failing write, every student's grades agree with the
\* marks: the subjects with a grade are the subjects with a mark, each
\* (student, subject) has one mark row and one grade row, and the grade is the
\* band of the threshold table that the stored mark falls in.
C13_GradesAgreeWithMarks ==
    \A student_id \in 1..Len(students) :
        /\ SubjectsIn(grades, student_id) = SubjectsIn(marks, student_id)
        /\ \A m \in Range(RowsOf(marks, student_id)) :
               /\ Len(SelectSeq(RowsOf(marks, student_id),
                                LAMBDA r : r.subject = m.subject)) = 1
               /\ Len(GradeRows(student_id, m.subject)) = 1
               /\ InBand(GradeRows(student_id, m.subject)[1].grade, m.mark)

\* two submissions: the second graded student 1 and left student 2 as it was
C13_Witness ==
    /\ EnterMarksPosted
    /\ RowsOf(marks, 1) = <<[student_id |-> 1, subject |-> "sci", mark |-> 95],
                            [student_id |-> 1, subject |-> "math", mark |-> 50]>>
    /\ RowsOf(grades, 1) = <<[student_id |-> 1, subject |-> "sci", grade |-> "A"],
                             [student_id |-> 1, subject |-> "math", grade |-> "E"]>>
    /\ RowsOf(marks, 2) = <<[student_id |-> 2, subject |-> "sci", mark |-> 50]>>
    /\ marks[1].student_id = 2

-----------------------------------------------------------------------------
(* Marks entry for a school of three students in two sections                 *)

PairMarkTexts == {<<"a", "b">>, IntStr(95)}

EnterMarksSchool == EnterMarksFrom(PairMarkTexts, {}, FALSE)

InitSchool ==
    /\ session = [username |-> "teacher2", role |-> "teacher"]
    /\ users = InitUsers
    /\ students = ThreeStudents
    /\ teachers = TwoTeachers
    /\ marks = <<>>
    /\ grades = <<>>
    /\ attendance = <<>>
    /\ nextStudentId = 4
    /\ nextTeacherId = 3
    /\ now = 0
    /\ req = NoRequest
    /\ resp = Out("", "", "")
    /\ issued = {}
    /\ ret = None
    /\ procs = NoProcs
    /\ writes = 0

NextSchool == EnterMarksSchool \/ Logout

SpecSchool == InitSchool /\ [][NextSchool]_vars

\* the subjects of the posted form whose field for the student is an integer
SubmittedSubjects(student_id) ==
    {k[2] : k \in {x \in DOMAIN req.input.form :
                       x[1] = student_id /\ ParseInt(req.input.form[x]) # {}}}

\* C14: an enter_marks submission replaces per student: a student of the
\* selected class with at least one integer field keeps marks and grades for
\* the submitted subjects only, with the submitted marks, and loses every
\* earlier row; a student with no integer field, and every student outside the
\* selected class and section, keeps marks and grades as they were.
C14_ReplacesPerStudent ==
    [][ EnterMarksPosted' =>
          \A student_id \in 1..Len(students) :
              IF student_id \in req'.input.ids /\ HasParseableMark(student_id)'
              THEN /\ SubjectsIn(marks', student_id) = SubmittedSubjects(student_id)'
                   /\ SubjectsIn(grades', student_id) = SubmittedSubjects(student_id)'
                   /\ \A r \in Range(RowsOf(marks', student_id)) :
                          /\ IntStr(r.mark) = req'.input.form[<<student_id, r.subject>>]
                          /\ Len(SelectSeq(RowsOf(marks', student_id),
                                     LAMBDA x : x.subject = r.subject)) = 1
                   /\ Len(RowsOf(grades', student_id))
                          = Cardinality(SubmittedSubjects(student_id)')
              ELSE /\ RowsOf(marks', student_id) = RowsOf(marks, student_id)
                   /\ RowsOf(grades', student_id) = RowsOf(grades, student_id) ]_vars

\* student 2 had math and sci; the last form held sci only for student 2, no
\* integer for student 1, and student 3 is of the other section
C14_Witness ==
    /\ EnterMarksPosted
    /\ req.input.ids = {1, 2}
    /\ ~HasParseableMark(1)
    /\ SubmittedSubjects(2) = {"sci"}
    /\ SubjectsIn(marks, 1) = {"math", "sci"}
    /\ SubjectsIn(marks, 2) = {"sci"}
    /\ SubjectsIn(grades, 3) = {"math"}

-----------------------------------------------------------------------------
(* Deleting a student that marks, grades, attendance and a user refer to:     *)
(* the state after the teacher entered a mark for student 1 and student 1     *)
(* marked attendance                                                          *)

InitReferred ==
    /\ session = EmptySession
    /\ users = InitUsers
    /\ students = SubSeq(ThreeStudents, 1, 2)
    /\ teachers = InitTeachers
    /\ marks = MarksRecords(1, <<[key |-> "math", value |-> 95]>>)
    /\ grades = <<[student_id |-> 1, subject |-> "math", grade |-> GradeOf(95)]>>
    /\ attendance = MarkAttendanceDb(<<>>, 1, Today(0), Img(MinFaceLen + 1, "a"),
                                     0, {}).tbl
    /\ nextStudentId = 3
    /\ nextTeacherId = 2
    /\ now = 0
    /\ req = NoRequest
    /\ resp = Out("", "", "")
    /\ issued = {}
    /\ ret = None
    /\ procs = NoProcs
    /\ writes = 0

NextReferred == Login \/ Logout \/ DeleteStudentRoute \/ DashboardStudent

SpecReferred == InitReferred /\ [][NextReferred]_vars

\* the user of the session is linked to a student id that has no row
DanglingLink ==
    \E u \in Range(users) :
        /\ u.username = session.username
        /\ u.student_id # 0
        /\ \A s \in Range(students) : s.id # u.student_id

\* C15: a delete_student that does not raise removes the students rows of one
\* id and nothing else: marks, grades, attendance and users are unchanged, so
\* rows that refer to a deleted student remain; dashboard_student answers a
\* student whose linked student has no row with 'Student data not found.' and
\* a redirect to login.
C15_DeleteLeavesReferences ==
    [][ /\ (/\ req'.route = "delete_student"
            /\ req'.input # NoInput
            /\ "students.delete" \notin req'.input.fails)
           => /\ \E id \in 1..MaxStudentId :
                     students' = SelectSeq(students, LAMBDA s : s.id # id)
              /\ marks' = marks
              /\ grades' = grades
              /\ attendance' = attendance
              /\ users' = users
        /\ (/\ req'.route = "dashboard_student"
            /\ session.role = "student"
            /\ DanglingLink)
           => resp' = Redirect("login", "Student data not found.") ]_vars

\* student 1 was deleted; its mark, grade, attendance and user are still there
\* and its user was sent from the dashboard to login
C15_Witness ==
    /\ req.route = "dashboard_student"
    /\ session = [username |-> "student1", role |-> "student"]
    /\ DanglingLink
    /\ RowsOf(marks, 1) # <<>>
    /\ RowsOf(grades, 1) # <<>>
    /\ RowsOf(attendance, 1) # <<>>
    /\ Len(students) = 1
    /\ resp = Redirect("login", "Student data not found.")

-----------------------------------------------------------------------------

\* C16: delete_student and delete_teacher return True whenever the backend
\* call does not raise, also when no row has the id, and the handler then
\* flashes '... deleted successfully!'; deleting an id a second time returns
\* True again and leaves the table as the first delete left it.
C16_DeleteIsIdempotent ==
    [][ /\ \A id \in 1..MaxStudentId :
               LET once == DeleteStudent(students, id, {})
               IN  /\ once.ret = TRUE
                   /\ \A s \in Range(once.tbl) : s.id # id
                   /\ DeleteStudent(once.tbl, id, {}) = once
        /\ \A id \in 1..MaxTeacherId :
               LET once == DeleteTeacher(teachers, id, {})
               IN  /\ once.ret = TRUE
                   /\ \A t \in Range(once.tbl) : t.id # id
                   /\ DeleteTeacher(once.tbl, id, {}) = once
        /\ (/\ req'.route = "delete_student"
            /\ req'.input # NoInput
            /\ "students.delete" \notin req'.input.fails)
           => resp' = Redirect("list_students", "Student deleted successfully!")
        /\ (/\ req'.route = "delete_teacher"
            /\ req'.input # NoInput
            /\ "teachers.delete" \notin req'.input.fails)
           => resp' = Redirect("list_teachers", "Teacher deleted successfully!") ]_vars

\* a delete of an id that has no row was answered with the success flash
C16_Witness ==
    /\ req.route = "delete_student"
    /\ req.input # NoInput
    /\ req.input.fails = {}
    /\ students = InitStudents
    /\ writes = 0
    /\ resp = Redirect("list_students", "Student deleted successfully!")

-----------------------------------------------------------------------------

NotFoundRoutes == {"edit_student", "edit_teacher", "delete_student_face"}

NotFoundReply(route) ==
    IF route = "edit_student"
        THEN Redirect("list_students", "Student not found.")
    ELSE IF route = "edit_teacher"
        THEN Redirect("list_teachers", "Teacher not found.")
    ELSE Redirect("manage_student_faces", "Student not found.")

\* the id of the url has no row in the table the handler reads
MissingRow(route, id) ==
    IF route = "edit_teacher"
    THEN \A t \in Range(teachers) : t.id # id
    ELSE \A s \in Range(students) : s.id # id

\* the request to the route came from a session of the role the handler asks
\* for, with the id of a row that does not exist
AskedForMissingRow(route) ==
    /\ req'.route = route
    /\ session.role \in AllowedRoles(route)
    /\ "id" \in DOMAIN req'.input
    /\ MissingRow(route, req'.input.id)

\* C17 as stated: for GET and POST alike, edit_student, edit_teacher and
\* delete_student_face asked for an id that has no row flash '... not found.',
\* redirect to the list or manage page and issue no update.
C17_NotFoundForGetAndPost ==
    [][ \A route \in NotFoundRoutes :
            AskedForMissingRow(route)
            => /\ resp' = NotFoundReply(route)
               /\ issued' = {}
               /\ tables' = tables ]_vars

\* C17: edit_student and edit_teacher, for GET and POST, and delete_student_face
\* for POST, the one method its route accepts, asked for an id that has no row
\* flash '... not found.', redirect to the list or manage page and issue no
\* update; a GET of delete_student_face is answered 405 and writes nothing.
C17_NotFoundWhenDispatched ==
    [][ \A route \in NotFoundRoutes :
            AskedForMissingRow(route)
            => /\ issued' = {}
               /\ tables' = tables
               /\ IF route = "delete_student_face" /\ req'.method = "GET"
                  THEN resp' = Failure("405")
                  ELSE resp' = NotFoundReply(route) ]_vars

\* a teacher posted to edit_student with the id of no row
C17_Witness ==
    /\ req.route = "edit_student"
    /\ req.method = "POST"
    /\ session.role = "teacher"
    /\ "id" \in DOMAIN req.input
    /\ MissingRow("edit_student", req.input.id)
    /\ students # <<>>
    /\ resp = Redirect("list_students", "Student not found.")

-----------------------------------------------------------------------------
(* Attendance of a student over two days, with a principal who can delete     *)
(* the student the user is linked to                                          *)

NextAttend == Login \/ Logout \/ MarkAttendance \/ DeleteStudentRoute \/ Tick

SpecAttend == InitReferred /\ [][NextAttend]_vars

\* the student rows that the user of the session is linked to
LinkedRows ==
    {s \in Range(students) :
        \E u \in Range(users) :
            u.username = session.username /\ u.student_id # 0 /\ u.student_id = s.id}

\* the rows of the new attendance table that the old one did not hold there
WrittenRows ==
    {attendance'[i] : i \in {k \in 1..Len(attendance') :
                                 k > Len(attendance) \/ attendance'[k] # attendance[k]}}

\* C18: /attendance/mark changes the attendance table only for a student
\* session, on POST, with a face_data that is present and longer than 100, and
\* then only in rows of the student the user is linked to and of today's date;
\* a POST whose face_data is missing or not longer than 100, and a request of a
\* user with no linked existing student, leave the table as it was and answer
\* with an error flash.
C18_AttendanceOnlyForOwnStudentToday ==
    [][ req'.route = "mark_attendance" =>
          /\ attendance' # attendance =>
                 /\ session.role = "student"
                 /\ req'.method = "POST"
                 /\ "face_data" \in DOMAIN req'.input
                 /\ req'.input.face_data # NoBlob
                 /\ req'.input.face_data.len > MinFaceLen
                 /\ LinkedRows # {}
                 /\ Len(attendance') >= Len(attendance)
                 /\ \A r \in WrittenRows :
                        /\ \E s \in LinkedRows : r.student_id = s.id
                        /\ r.date = Today(now)
          /\ (/\ "face_data" \in DOMAIN req'.input
              /\ \/ req'.input.face_data = NoBlob
                 \/ req'.input.face_data.len <= MinFaceLen)
             => /\ attendance' = attendance
                /\ issued' = {}
                /\ resp' = Redirect("dashboard_student",
                               "No valid face image captured. Please ensure your camera is working and try again.")
          /\ (session.role = "student" /\ LinkedRows = {})
             => /\ attendance' = attendance
                /\ issued' = {}
                /\ resp' = Redirect("dashboard_student", "Student data not found.") ]_vars

\* on the second day student 1 marked attendance again: a second record
C18_Witness ==
    /\ req.route = "mark_attendance"
    /\ req.method = "POST"
    /\ now = 1
    /\ session.username = "student1"
    /\ Len(attendance) = 2
    /\ attendance[2].student_id = 1
    /\ attendance[2].date = Today(1)
    /\ resp = Redirect("dashboard_student",
                       "Attendance marked successfully! Face image captured and stored.")

-----------------------------------------------------------------------------
(* Redirect chains *)

\* C19: redirects never loop. A request reached through two redirects in a row
\* is a GET of login that came from dashboard_student, it is answered with a
\* rendered page, and so no request is ever reached through a third redirect.
C19_RedirectsNeverLoop ==
    [][/\ req'.hops <= 2
       /\ req'.hops = 2 => /\ req.route = "dashboard_student"
                           /\ req'.route = "login"
                           /\ resp'.kind = "render"]_vars

\* index, then dashboard_student for a student user whose record is gone, then
\* the login page
C19_Witness ==
    /\ req.hops = 2
    /\ req.route = "login"
    /\ session.role = "student"
    /\ resp = Render("login.html")

-----------------------------------------------------------------------------
(* The statistics page and the student report over the whole range of marks: *)
(* student 1 has no mark or up to three marks a point apart, with the grades  *)
(* enter_marks gives them, and was present on no day or, with marks around 70 *)
(* and 75, on a number of days around 75 and 80 percent; a teacher opens the  *)
(* pages                                                                      *)

InitInsights ==
    /\ session = [username |-> "teacher2", role |-> "teacher"]
    /\ users = InitUsers
    /\ students = InitStudents
    /\ teachers = TwoTeachers
    /\ marks \in {MarksRecords(1, d) :
                    d \in {<<>>}
                      \cup {<<[key |-> "math", value |-> n]>> :
                               n \in (0 - MarkMargin)..(100 + MarkMargin)}
                      \cup {<<[key |-> "math", value |-> n],
                              [key |-> "sci", value |-> n + 1]>> :
                               n \in (0 - MarkMargin)..(100 + MarkMargin)}
                      \cup {<<[key |-> "math", value |-> n],
                              [key |-> "sci", value |-> n + 1],
                              [key |-> "art", value |-> n + 1]>> :
                               n \in (0 - MarkMargin)..(100 + MarkMargin)}}
    /\ grades = [i \in 1..Len(marks) |-> [student_id |-> marks[i].student_id,
                                          subject |-> marks[i].subject,
                                          grade |-> GradeOf(marks[i].mark)]]
    /\ attendance \in
           {[i \in 1..n |-> [student_id |-> 1,
                             date |-> Today(0 - 2 * i),
                             face_data |-> Img(MinFaceLen + 1, "a"),
                             created_at |-> Timestamp(0 - 2 * i),
                             updated_at |-> Timestamp(0 - 2 * i)]] :
               n \in {0, MaxDays - 2, MaxDays - 1, MaxDays}}
    /\ attendance = <<>> \/ \A i \in 1..Len(marks) : marks[i].mark \in 69..76
    /\ nextStudentId = 2
    /\ nextTeacherId = 3
    /\ now = 0
    /\ req = NoRequest
    /\ resp = Out("", "", "")
    /\ issued = {}
    /\ ret = None
    /\ procs = NoProcs
    /\ writes = 0

NextInsights == AiAcademicStats \/ Logout

SpecInsights == InitInsights /\ [][NextInsights]_vars

NextReport == StudentReportPage \/ Logout

SpecReport == InitInsights /\ [][NextReport]_vars

\* the sum of the marks in the rows of a table
RECURSIVE RowTotal(_)
RowTotal(rows) == IF rows = <<>> THEN 0 ELSE Head(rows).mark + RowTotal(Tail(rows))

PerformanceLevels ==
    {"Excellent", "Good", "Average", "Below Average", "Needs Improvement"}

\* lo <= total / n < hi
AverageIn(total, n, lo, hi) == lo * n <= total /\ total < hi * n

\* the level the five bands give to the average total / n
BandLevel(total, n) ==
    CHOOSE level \in PerformanceLevels :
        /\ level = "Excellent" <=> total >= 90 * n
        /\ level = "Good" <=> AverageIn(total, n, 80, 90)
        /\ level = "Average" <=> AverageIn(total, n, 70, 80)
        /\ level = "Below Average" <=> AverageIn(total, n, 60, 70)

\* C20: the performance level on the statistics page of a student is the one
\* of five values that the band of the student's average mark gives: Excellent
\* from 90, Good in [80, 90), Average in [70, 80), Below Average in [60, 70),
\* Needs Improvement below 60; a student whose marks are none (no row, or the
\* read of the rows failed) has the average 0 and is Needs Improvement.
C20_PerformanceLevelByAverage ==
    (req.route = "ai_academic_stats" /\ resp.kind = "render" /\ ret # None) =>
        LET data == TheOne(ret)
            rows == RowsOf(marks, data.student)
            none == rows = <<>> \/ "marks.select" \in req.input.failing
        IN  /\ data.performance_level \in PerformanceLevels
            /\ none => data.performance_level = "Needs Improvement"
            /\ ~none => data.performance_level = BandLevel(RowTotal(rows), Len(rows))

\* marks of 89 and 90 average 89.5, which is Good
C20_Witness ==
    /\ req.route = "ai_academic_stats"
    /\ ret # None
    /\ marks = MarksRecords(1, <<[key |-> "math", value |-> 89],
                                 [key |-> "sci", value |-> 90]>>)
    /\ TheOne(ret).performance_level = "Good"

DefaultRecommendations ==
    {"Continue current academic support strategies",
     "Encourage participation in advanced learning opportunities"}

\* the marks and the days of attendance that the page of the request read:
\* none when the read failed
MarksRead(student_id) ==
    IF "marks.select" \in req.input.failing THEN <<>> ELSE RowsOf(marks, student_id)

DaysRead(student_id) ==
    IF "attendance.select" \in req.input.failing THEN 0
    ELSE Len(RowsOf(attendance, student_id))

GradesRead(student_id) ==
    IF "grades.select" \in req.input.failing THEN <<>> ELSE RowsOf(grades, student_id)

\* report_data against the rows of the student: average_marks, in hundredths,
\* is either the very quotient of the sum of the marks by their number, or the
\* hundredth nearest to it
ReportMatches(rounded) ==
    (req.route = "student_report" /\ resp.kind = "render" /\ ret # None) =>
        LET data == TheOne(ret)
            rows == MarksRead(data.student)
            n == Cardinality({rows[i].subject : i \in 1..Len(rows)})
            off == 100 * RowTotal(rows) - data.average_marks * n
            given == GradesRead(data.student)
        IN  /\ data.total_subjects = n
            /\ n = 0 => data.average_marks = 0
            /\ n > 0 => IF rounded THEN 2 * off <= n /\ 2 * (0 - off) <= n
                        ELSE off = 0
            /\ data.total_attendance_days = DaysRead(data.student)
            /\ SumValues(data.grade_distribution, DOMAIN data.grade_distribution)
                   = Cardinality({given[i].subject : i \in 1..Len(given)})

\* C22, as stated: the aggregates of student_report match the stored data.
\* total_subjects is the number of subjects with a mark, average_marks is the
\* sum of the marks divided by that number and 0 when there is no mark,
\* total_attendance_days is the number of attendance records, and the counts of
\* grade_distribution sum to the number of subjects with a grade.
C22_ReportMatchesStoredData == ReportMatches(FALSE)

\* C22, amended: the same, with average_marks being that quotient rounded to
\* two decimals.
C22_ReportMatchesRounded == ReportMatches(TRUE)

\* marks of 50, 51 and 51 are reported with the average 50.67
C22_Witness ==
    /\ req.route = "student_report"
    /\ resp.kind = "render"
    /\ ret # None
    /\ RowTotal(RowsOf(marks, 1)) = 152
    /\ TheOne(ret).total_subjects = 3
    /\ TheOne(ret).average_marks = 5067

=============================================================================
